---------------------------- MODULE Spec2Model ----------------------------
(***************************************************************************)
(* A model of the region-skill-half-life analytics core                    *)
(* (src/region-skill-half-life/backend/services).                          *)
(*                                                                         *)
(* The services are pure functions.  Each one is modelled as an operator   *)
(* that computes what the Python computes, and as one or more actions of   *)
(* a call in flight: Init draws the arguments from bounded sets, the       *)
(* actions run the call to its return or to the error it raises.           *)
(*                                                                         *)
(* Numbers.  The code works on IEEE doubles.  The model works on exact     *)
(* rationals [n, d] (d > 0, lowest terms), so a comparison or a rounding   *)
(* is the one the real-number value decides; round(x, k) is modelled as    *)
(* round-half-even of x * 10^k, the result being the integer number of     *)
(* 10^-k units.  A skill label is the sequence of its words; the piece " " *)
(* in it is white space beyond the single blanks that separate the words.  *)
(***************************************************************************)
EXTENDS Integers, Sequences, FiniteSets, TLC

VARIABLES
    pc,       \* position of the call in flight
    args,     \* the arguments of the call
    locals,   \* the local variables of the call
    result    \* what the call returned or raised

vars == <<pc, args, locals, result>>

NoLocals == [none |-> TRUE]
NoResult == [status |-> "pending"]

Raise(kind, message) == [status |-> "error", error |-> kind, message |-> message]
Return(value) == [status |-> "ok", value |-> value]

-----------------------------------------------------------------------------
(* Integer and rational arithmetic                                         *)

Abs(x) == IF x < 0 THEN -x ELSE x
Min2(a, b) == IF a <= b THEN a ELSE b
Max2(a, b) == IF a >= b THEN a ELSE b

RECURSIVE GCD(_, _)
GCD(a, b) == IF b = 0 THEN a ELSE GCD(b, a % b)

\* the rational n / d in lowest terms with a positive denominator (d # 0)
Rat(n, d) ==
    LET g == GCD(Abs(n), Abs(d))
        s == IF d < 0 THEN -1 ELSE 1
    IN  [n |-> s * (n \div g), d |-> s * (d \div g)]

QInt(i) == [n |-> i, d |-> 1]
QNeg(a) == [n |-> -a.n, d |-> a.d]
QAdd(a, b) ==
    LET g == GCD(a.d, b.d)
    IN  Rat(a.n * (b.d \div g) + b.n * (a.d \div g), (a.d \div g) * b.d)
QSub(a, b) == QAdd(a, QNeg(b))
QMul(a, b) ==
    LET g1 == GCD(Abs(a.n), b.d)
        g2 == GCD(Abs(b.n), a.d)
    IN  IF a.n = 0 \/ b.n = 0 THEN QInt(0)
        ELSE Rat((a.n \div g1) * (b.n \div g2), (a.d \div g2) * (b.d \div g1))
QInv(a) == IF a.n < 0 THEN [n |-> -a.d, d |-> -a.n] ELSE [n |-> a.d, d |-> a.n]
QDiv(a, b) == QMul(a, QInv(b))
RECURSIVE FractionLess(_, _, _, _)
\* a / b < c / d for 0 <= a < b and 0 <= c < d, by the reciprocals' integer
\* parts and then their fractions
FractionLess(a, b, c, d) ==
    IF c = 0 THEN FALSE
    ELSE IF a = 0 THEN TRUE
    ELSE IF d \div c # b \div a THEN d \div c < b \div a
    ELSE FractionLess(d % c, c, b % a, a)

\* a < b, by the integer parts and then the fractions
QLt(a, b) ==
    IF a.n \div a.d # b.n \div b.d THEN a.n \div a.d < b.n \div b.d
    ELSE FractionLess(a.n % a.d, a.d, b.n % b.d, b.d)
QLe(a, b) == ~QLt(b, a)
QEq(a, b) == a.n = b.n /\ a.d = b.d
QMax(a, b) == IF QLt(a, b) THEN b ELSE a
QMin(a, b) == IF QLt(b, a) THEN b ELSE a
QAbs(a) == [n |-> Abs(a.n), d |-> a.d]

Pow10(k) == IF k = 0 THEN 1 ELSE IF k = 1 THEN 10 ELSE IF k = 2 THEN 100
            ELSE IF k = 3 THEN 1000 ELSE IF k = 4 THEN 10000 ELSE IF k = 5 THEN 100000
            ELSE IF k = 6 THEN 1000000 ELSE IF k = 7 THEN 10000000 ELSE 100000000

RECURSIVE LongDivision(_, _, _, _)
\* <<floor(r0 * 10^k / d), remainder>> for the quotient q so far and 0 <= r < d,
\* one decimal digit a step
LongDivision(q, r, d, k) ==
    IF k = 0 THEN <<q, r>>
    ELSE LongDivision(q * 10 + ((r * 10) \div d), (r * 10) % d, d, k - 1)

\* the digits <<q, r>> rounded to the nearest, ties to the even q
RoundedDigits(qr, d) ==
    IF 2 * qr[2] < d THEN qr[1]
    ELSE IF 2 * qr[2] > d THEN qr[1] + 1
    ELSE IF qr[1] % 2 = 0 THEN qr[1] ELSE qr[1] + 1

\* round(q, k) as a decimal [i, f, k]: the value i + f / 10^k with 0 <= f < 10^k
Carried(i, f, k) == IF f = Pow10(k) THEN [i |-> i + 1, f |-> 0, k |-> k]
                    ELSE [i |-> i, f |-> f, k |-> k]

RoundedDec(q, k) ==
    Carried(q.n \div q.d, RoundedDigits(LongDivision(0, q.n % q.d, q.d, k), q.d), k)

\* q with a denominator the long division has room for: one beyond 10^8 is cut
\* by five bits, as a float's mantissa would be
Shrunk(q) == IF q.d < 100000000 THEN q ELSE [n |-> q.n \div 32, d |-> q.d \div 32]

QRoundDec(q, k) == RoundedDec(Shrunk(q), k)

\* round(q, k) in units of 10^-k, for values small enough to be counted in them
QRound(q, k) == QRoundDec(q, k).i * Pow10(k) + QRoundDec(q, k).f

\* q to three and to six decimal places
Milli(q) == Rat(QRound(q, 3), 1000)
Micro(q) == Rat(QRound(q, 6), 1000000)

DecLe(a, b) == a.i < b.i \/ (a.i = b.i /\ a.f <= b.f)
DecInt(i, k) == [i |-> i, f |-> 0, k |-> k]

\* max(0.0, min(100.0, value))
QClamp0100(q) == QMax(QInt(0), QMin(QInt(100), q))

-----------------------------------------------------------------------------
(* Sequences                                                               *)

\* the sequence s with its elements computed (a list, not a rule to compute it)
Listed(s) == s \o <<>>

RECURSIVE SeqsUpTo(_, _, _)
\* the sequences over S of a length in lo..hi
SeqsUpTo(S, lo, hi) ==
    IF hi < lo THEN {}
    ELSE SeqsUpTo(S, lo, hi - 1) \cup [1..hi -> S]

\* lexicographic order of two tuples of integers of the same length
RECURSIVE LexLess(_, _)
LexLess(a, b) ==
    IF a = <<>> THEN FALSE
    ELSE IF Head(a) # Head(b) THEN Head(a) < Head(b)
    ELSE LexLess(Tail(a), Tail(b))

\* the place of s[i] in sorted(s, key=...): after the elements with a smaller
\* key and after the earlier elements with the same key (the sort is stable)
Rank(i, keys) ==
    1 + Cardinality({j \in 1..Len(keys) :
                        \/ LexLess(keys[j], keys[i])
                        \/ keys[j] = keys[i] /\ j < i})

\* s in the order of the ranks of its elements
SortedByRanks(s, ranks) ==
    Listed([p \in 1..Len(s) |-> s[CHOOSE i \in 1..Len(s) : ranks[i] = p]])

SortedWithKeys(s, keys) == SortedByRanks(s, Listed([i \in 1..Len(s) |-> Rank(i, keys)]))

\* Python's sorted(s, key=...): ascending by keys[i], the key of s[i], and
\* stable (equal keys keep the order of the input)
SortedByKey(s, keys) == SortedWithKeys(s, Listed(keys))

\* next((item for item in s if test(item)), default), tests[i] being test(s[i])
FirstWhere(s, tests, default) ==
    IF \E i \in 1..Len(s) : tests[i]
    THEN s[CHOOSE i \in 1..Len(s) : tests[i] /\ \A j \in 1..(i - 1) : ~tests[j]]
    ELSE default

-----------------------------------------------------------------------------
(* pivot_service.py                                                        *)

SkillMarketProfile(skill, avg_salary, demand_strength, volatility, automation_risk) ==
    [skill |-> skill, avg_salary |-> avg_salary, demand_strength |-> demand_strength,
     volatility |-> volatility, automation_risk |-> automation_risk]

DEFAULT_MARKET_PROFILES == <<
    SkillMarketProfile(<<"Python", "Backend">>, 132000, 84, 34, 28),
    SkillMarketProfile(<<"Data", "Engineering">>, 141000, 81, 31, 24),
    SkillMarketProfile(<<"Machine", "Learning", "Engineering">>, 156000, 78, 42, 30),
    SkillMarketProfile(<<"Cloud", "DevOps">>, 148000, 79, 36, 26),
    SkillMarketProfile(<<"Cybersecurity">>, 152000, 83, 29, 18),
    SkillMarketProfile(<<"Product", "Analytics">>, 126000, 74, 33, 27),
    SkillMarketProfile(<<"Data", "Science">>, 149000, 77, 43, 32),
    SkillMarketProfile(<<"Site", "Reliability", "Engineering">>, 154000, 75, 37, 23),
    SkillMarketProfile(<<"AI", "Application", "Engineering">>, 164000, 82, 48, 35),
    SkillMarketProfile(<<"Frontend", "Engineering">>, 124000, 70, 41, 33),
    SkillMarketProfile(<<"Platform", "Engineering">>, 158000, 73, 35, 22),
    SkillMarketProfile(<<"MLOps">>, 161000, 76, 39, 27) >>

\* str.lower() of one word, on the words the model's labels are made of
LowerWord(w) ==
    CASE w = "Python" -> "python"
      [] w = "Backend" -> "backend"
      [] w = "BACKEND" -> "backend"
      [] w = "Data" -> "data"
      [] w = "Engineering" -> "engineering"
      [] w = "Machine" -> "machine"
      [] w = "Learning" -> "learning"
      [] w = "Cloud" -> "cloud"
      [] w = "DevOps" -> "devops"
      [] w = "Cybersecurity" -> "cybersecurity"
      [] w = "Product" -> "product"
      [] w = "Analytics" -> "analytics"
      [] w = "Science" -> "science"
      [] w = "Site" -> "site"
      [] w = "Reliability" -> "reliability"
      [] w = "AI" -> "ai"
      [] w = "Application" -> "application"
      [] w = "Frontend" -> "frontend"
      [] w = "Platform" -> "platform"
      [] w = "MLOps" -> "mlops"
      [] w = "Java" -> "java"
      [] w = "JAVA" -> "java"
      [] OTHER -> w

\* skill.lower(): the label with every word in lower case
Lower(skill) == [i \in 1..Len(skill) |-> LowerWord(skill[i])]

RECURSIVE LStrip(_)
LStrip(skill) ==
    IF skill # <<>> /\ Head(skill) = " " THEN LStrip(Tail(skill)) ELSE skill

RECURSIVE RStrip(_)
RStrip(skill) ==
    IF skill # <<>> /\ skill[Len(skill)] = " "
    THEN RStrip(SubSeq(skill, 1, Len(skill) - 1)) ELSE skill

\* skill.strip(): the label without its leading and trailing white space
Strip(skill) == RStrip(LStrip(skill))

\* the set of lower-case words of a label (white space separates, it is no word)
_tokenize(skill) == {LowerWord(skill[i]) : i \in 1..Len(skill)} \ {" "}

\* |left /\ right| / |left \/ right| of the token sets, 0 when either is empty
_jaccard_similarity(left, right) ==
    LET left_tokens == _tokenize(left)
        right_tokens == _tokenize(right)
    IN  IF left_tokens = {} \/ right_tokens = {} THEN QInt(0)
        ELSE Rat(Cardinality(left_tokens \cap right_tokens),
                 Cardinality(left_tokens \cup right_tokens))

_normalize_score(value) == QClamp0100(value)

\* the months without the penalty of the aggressiveness
MonthsOfAnyTier(similarity, target_volatility, aggressiveness) ==
    QRound(QMax(QInt(1), QAdd(QAdd(QInt(3), QMul(QSub(QInt(1), similarity), QInt(10))),
                              QMul(Rat(target_volatility, 100), Rat(35, 10)))), 0)

\* round(max(1.0, base + complexity + aggressive_penalty)) months
_estimate_learning_months(similarity, target_volatility, aggressiveness) ==
    LET base == QAdd(QInt(3), QMul(QSub(QInt(1), similarity), QInt(10)))
        complexity == QMul(Rat(target_volatility, 100), Rat(35, 10))
        aggressive_penalty == QMul(aggressiveness, QInt(4))
    IN  QRound(QMax(QInt(1), QAdd(QAdd(base, complexity), aggressive_penalty)), 0)

\* risk_score is kept in units of 10^-4 (round(risk_score, 4))
_score_candidate(current_skill, candidate) ==
    LET similarity == _jaccard_similarity(current_skill, candidate.skill)
        market_risk == QAdd(QAdd(QMul(Rat(45, 100), QInt(candidate.automation_risk)),
                                 QMul(Rat(30, 100), QInt(candidate.volatility))),
                            QMul(Rat(25, 100), QInt(100 - candidate.demand_strength)))
        transition_risk == QMul(QSub(QInt(1), similarity), QInt(100))
        risk_score == _normalize_score(QAdd(QMul(Rat(55, 100), transition_risk),
                                            QMul(Rat(45, 100), market_risk)))
    IN  [skill |-> candidate.skill,
         similarity |-> similarity,
         risk_score |-> QRound(risk_score, 4),
         salary_projection |-> candidate.avg_salary,
         demand_strength |-> candidate.demand_strength,
         volatility |-> candidate.volatility,
         automation_risk |-> candidate.automation_risk]

\* round(0.45 * (100 - risk) + 0.30 * min(100, salary / 2000) + 0.25 * demand, 4),
\* in units of 10^-4
Desirability(candidate) ==
    QRound(QAdd(QAdd(QMul(Rat(45, 100), QSub(QInt(100), Rat(candidate.risk_score, 10000))),
                     QMul(Rat(30, 100), QMin(QInt(100), Rat(candidate.salary_projection, 2000)))),
                QMul(Rat(25, 100), QInt(candidate.demand_strength))), 4)

\* _format(choice, aggressiveness)
FormatPivot(choice, aggressiveness) ==
    [target_skill |-> choice.skill,
     risk_score |-> choice.risk_score,
     salary_projection |-> choice.salary_projection,
     learning_time_estimate |->
        _estimate_learning_months(choice.similarity, choice.volatility, aggressiveness)]

\* pivot_service.py:134-142: every candidate scored, with its desirability
WithDesirability(c, desirability) ==
    [skill |-> c.skill, similarity |-> c.similarity, risk_score |-> c.risk_score,
     salary_projection |-> c.salary_projection, demand_strength |-> c.demand_strength,
     volatility |-> c.volatility, automation_risk |-> c.automation_risk,
     desirability |-> desirability]

ScoredCandidate(current_skill, profile) ==
    WithDesirability(_score_candidate(current_skill, profile),
                     Desirability(_score_candidate(current_skill, profile)))

Scored(current_skill, filtered_profiles) ==
    Listed([i \in 1..Len(filtered_profiles) |->
               ScoredCandidate(current_skill, filtered_profiles[i])])

\* the candidates by risk alone, equal risks in the order of the catalog
ByRiskOnly(scored) ==
    SortedByKey(scored, [i \in 1..Len(scored) |-> <<scored[i].risk_score>>])

by_risk_asc(scored) ==
    SortedByKey(scored, [i \in 1..Len(scored) |-> <<scored[i].risk_score, -scored[i].desirability>>])

by_risk_mid(scored) ==
    SortedByKey(scored, [i \in 1..Len(scored) |-> <<Abs(scored[i].risk_score - 500000)>>])

\* reverse=True: descending, equal keys in the order of the input
by_upside_desc(scored) ==
    SortedByKey(scored, [i \in 1..Len(scored) |-> <<-scored[i].desirability, scored[i].risk_score>>])

safe_choice(scored) == by_risk_asc(scored)[1]

\* the moderate tier taken from the top of the ranking, the safe choice included
ModerateAmongAll(mid, safe) == mid[1]

ModerateAmong(mid, safe) ==
    FirstWhere(mid, [i \in 1..Len(mid) |-> mid[i].skill # safe.skill], mid[1])

moderate_choice(scored, safe) == ModerateAmong(by_risk_mid(scored), safe)

\* the aggressive tier taken from the top of the ranking, whatever was chosen before
AggressiveAmongAll(upside, safe, moderate) == upside[1]

AggressiveAmong(upside, safe, moderate) ==
    FirstWhere(upside,
               [i \in 1..Len(upside) |->
                   /\ upside[i].skill \notin {safe.skill, moderate.skill}
                   /\ upside[i].risk_score >= 450000],
               upside[1])

aggressive_choice(scored, safe, moderate) ==
    AggressiveAmong(by_upside_desc(scored), safe, moderate)

TiersOf(safe, moderate, aggressive) ==
    [safe_pivot |-> FormatPivot(safe, Rat(2, 10)),
     moderate_pivot |-> FormatPivot(moderate, Rat(55, 100)),
     aggressive_pivot |-> FormatPivot(aggressive, Rat(9, 10))]

ChooseAggressive(scored, safe, moderate) ==
    TiersOf(safe, moderate, aggressive_choice(scored, safe, moderate))

ChooseModerate(scored, safe) ==
    ChooseAggressive(scored, safe, moderate_choice(scored, safe))

ChooseTiers(scored) == ChooseModerate(scored, safe_choice(scored))

\* the three tiers as chosen, before the ordering of the risks is enforced
ChosenPivots(current_skill, filtered_profiles) ==
    ChooseTiers(Scored(current_skill, filtered_profiles))

\* the tiers as chosen, with the re-ordering step left out
UnorderedTiers(chosen) == chosen

Relabelled(ordered) ==
    [safe_pivot |-> ordered[1], moderate_pivot |-> ordered[2], aggressive_pivot |-> ordered[3]]

\* pivot_service.py:179-197: if the three risks are not ascending, the three
\* records are sorted by risk_score and relabelled
OrderedTiers(chosen) ==
    IF /\ chosen.safe_pivot.risk_score <= chosen.moderate_pivot.risk_score
       /\ chosen.moderate_pivot.risk_score <= chosen.aggressive_pivot.risk_score
    THEN chosen
    ELSE Relabelled(SortedByKey(
            <<chosen.safe_pivot, chosen.moderate_pivot, chosen.aggressive_pivot>>,
            << <<chosen.safe_pivot.risk_score>>, <<chosen.moderate_pivot.risk_score>>,
               <<chosen.aggressive_pivot.risk_score>> >>))

\* pivot_service.py:130: the profiles whose label differs from current_skill,
\* both in lower case
FilteredProfiles(current_skill, resolved_profiles) ==
    LET Kept(profile) == Lower(profile.skill) # Lower(current_skill)
    IN  SelectSeq(resolved_profiles, Kept)

WithCurrentSkill(current_skill, tiers) ==
    Return([current_skill |-> Strip(current_skill),
            safe_pivot |-> tiers.safe_pivot,
            moderate_pivot |-> tiers.moderate_pivot,
            aggressive_pivot |-> tiers.aggressive_pivot])

\* pivot_service.py:131-199
PivotsAmong(current_skill, filtered_profiles) ==
    IF Len(filtered_profiles) < 3
    THEN Raise("ValueError",
               "At least 3 distinct target skills are required for pivot suggestions.")
    ELSE WithCurrentSkill(current_skill,
                          OrderedTiers(ChosenPivots(current_skill, filtered_profiles)))

\* market_profiles is [is_none |-> TRUE] or [is_none |-> FALSE, items |-> a list]
suggest_skill_pivots(current_skill, market_profiles) ==
    IF current_skill = <<>> \/ Strip(current_skill) = <<>>
    THEN Raise("ValueError", "current_skill must be a non-empty string.")
    ELSE IF ~market_profiles.is_none /\ market_profiles.items = <<>>
    THEN Raise("ValueError", "market_profiles must not be empty when provided.")
    ELSE
      PivotsAmong(current_skill,
                  FilteredProfiles(current_skill,
                                   IF market_profiles.is_none THEN DEFAULT_MARKET_PROFILES
                                   ELSE market_profiles.items))

-----------------------------------------------------------------------------
(* numpy and scikit-learn, as half_life_service.py uses them               *)

None == [none |-> TRUE]
Some(v) == [none |-> FALSE, v |-> v]

RECURSIVE SumRange(_, _, _)
\* s[lo] + ... + s[hi], by halves
SumRange(s, lo, hi) ==
    IF lo > hi THEN 0
    ELSE IF lo = hi THEN s[lo]
    ELSE SumRange(s, lo, (lo + hi) \div 2) + SumRange(s, (lo + hi) \div 2 + 1, hi)

SumSeq(s) == SumRange(s, 1, Len(s))

RECURSIVE QSumRange(_, _, _)
QSumRange(s, lo, hi) ==
    IF lo > hi THEN QInt(0)
    ELSE IF lo = hi THEN s[lo]
    ELSE QAdd(QSumRange(s, lo, (lo + hi) \div 2), QSumRange(s, (lo + hi) \div 2 + 1, hi))

QSum(s) == QSumRange(s, 1, Len(s))

RECURSIVE QMaxAbsRange(_, _, _)
QMaxAbsRange(s, lo, hi) ==
    IF lo > hi THEN QInt(0)
    ELSE IF lo = hi THEN QAbs(s[lo])
    ELSE QMax(QMaxAbsRange(s, lo, (lo + hi) \div 2),
              QMaxAbsRange(s, (lo + hi) \div 2 + 1, hi))

\* the largest magnitude among s, 0 for none
QMaxAbs(s) == QMaxAbsRange(s, 1, Len(s))

\* a[k:], k >= 0 counted from 0
SliceFrom(a, k) == SubSeq(a, k + 1, Len(a))

\* a[-window:]: the last window elements; all of a when window is 0 or exceeds
\* its length; a[k:] when window = -k is negative
LastSlice(a, window) ==
    IF window > 0 THEN SubSeq(a, Max2(1, Len(a) - window + 1), Len(a))
    ELSE SliceFrom(a, Min2(Len(a), -window))

\* np.isclose(a, b) on integers, rtol = 1e-5 and atol = 1e-8:
\* |a - b| <= 1e-8 + 1e-5 * |b|, that is 10^8 * |a - b| <= 1 + 1000 * |b|
IsClose(a, b) == Abs(a - b) <= (1 + 1000 * Abs(b)) \div 100000000

\* np.isclose(q, 0.0) on a rational: |q| <= 1e-8
IsCloseToZero(q) == Abs(q.n) <= q.d \div 100000000

\* np.allclose(series, series[0])
AllClose(series, first) == \A i \in 1..Len(series) : IsClose(series[i], first)

\* the index, from 0, of the last occurrence of the maximum
ArgMaxLast(series) ==
    (CHOOSE i \in 1..Len(series) :
        /\ \A j \in 1..Len(series) : series[j] <= series[i]
        /\ \A j \in (i + 1)..Len(series) : series[j] < series[i]) - 1

\* np.argmax(series): the index, from 0, of the first occurrence of the maximum
ArgMax(series) ==
    (CHOOSE i \in 1..Len(series) :
        /\ \A j \in 1..Len(series) : series[j] <= series[i]
        /\ \A j \in 1..(i - 1) : series[j] < series[i]) - 1

\* np.arange(start, start + count)
Arange(start, count) == [i \in 1..count |-> start + i - 1]

\* The model's floating-point square roots and quotients of sums of squares
\* are taken on values scaled to their largest magnitude: xs / scale in
\* thousandths, of xs and a scale read to four decimal places.
Scaled(xs, scale) ==
    Listed([i \in 1..Len(xs) |-> QRound(Rat(QRound(xs[i], 4), QRound(scale, 4)), 3)])

SumOfSquares(ns) == SumSeq(Listed([i \in 1..Len(ns) |-> ns[i] * ns[i]]))

RECURSIVE IsqrtBetween(_, _, _)
\* the largest r in lo..hi with r * r <= n, given lo * lo <= n
IsqrtBetween(lo, hi, n) ==
    IF lo >= hi THEN lo
    ELSE IF ((lo + hi + 1) \div 2) * ((lo + hi + 1) \div 2) <= n
         THEN IsqrtBetween((lo + hi + 1) \div 2, hi, n)
         ELSE IsqrtBetween(lo, ((lo + hi + 1) \div 2) - 1, n)

Isqrt(n) == IsqrtBetween(0, 46340, n)

QMean(xs) == QDiv(QSum(xs), QInt(Len(xs)))

Deviations(xs, mean) == Listed([i \in 1..Len(xs) |-> QSub(xs[i], mean)])

CenteredOn(us, mean) == Listed([i \in 1..Len(us) |-> us[i] - mean])

\* the scaled values less their mean
Centered(us) == CenteredOn(us, QRound(Rat(SumSeq(us), Len(us)), 0))

\* sqrt(mean((us - mean(us))^2)) of values us scaled to thousandths, in units
\* of the scale
StdOfScaled(us) ==
    Rat(Isqrt((SumOfSquares(Centered(us)) * 4) \div Len(us)), 2000)

\* np.std(xs) / largest, for the largest magnitude among xs
StdRelative(xs, largest) ==
    IF largest.n = 0 THEN QInt(0) ELSE StdOfScaled(Scaled(xs, largest))

\* np.std(xs): sqrt(mean((xs - mean(xs))^2)) of a non-empty list of rationals
Std(xs) == QMul(QMaxAbs(xs), StdRelative(xs, QMaxAbs(xs)))

\* np.diff(series)
Diff(series) == Listed([i \in 1..(Len(series) - 1) |-> series[i + 1] - series[i]])

Rationals(ns) == Listed([i \in 1..Len(ns) |-> QInt(ns[i])])

\* LinearRegression().fit(x, y) on consecutive years x and integer values y:
\* coef_ = sum((x - mean x)(y - mean y)) / sum((x - mean x)^2), computed on the
\* offsets x - x[0]; 0 when a single point leaves the slope undetermined
Slope(x, y) ==
    LET n == Len(x)
        dx == [i \in 1..n |-> x[i] - x[1]]
        sx == SumSeq(Listed(dx))
        sy == SumSeq(y)
        sxx == SumSeq(Listed([i \in 1..n |-> dx[i] * dx[i]]))
        sxy == SumSeq(Listed([i \in 1..n |-> dx[i] * y[i]]))
    IN  IF n * sxx - sx * sx = 0 THEN QInt(0)
        ELSE Rat(n * sxy - sx * sy, n * sxx - sx * sx)

\* intercept_ = mean(y) - coef_ * mean(x)
Intercept(x, y, slope) ==
    QSub(Rat(SumSeq(y), Len(y)), QMul(slope, Rat(SumSeq(x), Len(x))))

\* model.predict(x)
Predict(slope, intercept, x) ==
    Listed([i \in 1..Len(x) |-> QAdd(intercept, QMul(slope, QInt(x[i])))])

FittedLine(x, slope, intercept) ==
    [slope |-> slope, intercept |-> intercept, predictions |-> Predict(slope, intercept, x)]

LineThrough(x, y, slope) == FittedLine(x, slope, Intercept(x, y, slope))

_fit_linear_regression(x, y) == LineThrough(x, y, Slope(x, y))

\* 1 - residual / total, both sums of squares scaled to the largest deviation,
\* the quotient kept to three decimal places
R2OfScaled(residuals, totals) ==
    QSub(QInt(1), Rat(QRound(Rat(SumOfSquares(residuals), SumOfSquares(totals)), 3), 1000))

R2OfDeviations(residuals, totals) ==
    IF QMaxAbs(totals).n # 0
    THEN R2OfScaled(Scaled(residuals, QMaxAbs(totals)), Scaled(totals, QMaxAbs(totals)))
    ELSE IF QMaxAbs(residuals).n # 0 THEN QInt(0)
    ELSE QInt(1)

Residuals(y, predictions) == Listed([i \in 1..Len(y) |-> QSub(QInt(y[i]), predictions[i])])

\* sklearn.metrics.r2_score(y, predictions): 1 - sum((y - pred)^2) / sum((y - mean y)^2);
\* with a zero denominator 1.0 for a perfect prediction and 0.0 otherwise
r2_score(y, predictions) ==
    R2OfDeviations(Residuals(y, predictions),
                   Deviations(Rationals(y), Rat(SumSeq(y), Len(y))))

-----------------------------------------------------------------------------
(* half_life_service.py                                                    *)

HalfLifeConfig(required_years, start_year, recent_window, forecast_years) ==
    [required_years |-> required_years, start_year |-> start_year,
     recent_window |-> recent_window, forecast_years |-> forecast_years]

\* HalfLifeConfig(): 40 years from 1985, a window of 12, 5 years of forecast
DefaultHalfLifeConfig == HalfLifeConfig(40, 1985, 12, 5)

HalfLifeAnalyticsError(message) == Raise("HalfLifeAnalyticsError", message)

\* a validation that lets a series without variation through
ValidateWithoutVariation(demand_data, config) ==
    IF Len(demand_data) # config.required_years
    THEN Raise("HalfLifeAnalyticsError", "Demand data must include exactly required_years years.")
    ELSE IF \E i \in 1..Len(demand_data) : demand_data[i] < 0
    THEN Raise("HalfLifeAnalyticsError", "Demand data cannot contain negative values.")
    ELSE Return(demand_data)

\* the series, or the error raised (the model's values are finite integers: the
\* NaN / infinity check never fires)
_validate_input(demand_data, config) ==
    IF Len(demand_data) # config.required_years
    THEN HalfLifeAnalyticsError("Demand data must include exactly required_years years.")
    ELSE IF \E i \in 1..Len(demand_data) : demand_data[i] < 0
    THEN HalfLifeAnalyticsError("Demand data cannot contain negative values.")
    ELSE IF AllClose(demand_data, demand_data[1])
    THEN HalfLifeAnalyticsError("Demand data has no variation; half-life analytics is not meaningful.")
    ELSE Return(demand_data)

\* a crossing that asks for two different values only
CrossesIfDifferent(previous, current, threshold) ==
    /\ QLe(threshold, QInt(previous))
    /\ QLe(QInt(current), threshold)
    /\ previous # current

\* previous >= threshold >= current and not np.isclose(previous, current)
Crosses(previous, current, threshold) ==
    /\ QLe(threshold, QInt(previous))
    /\ QLe(QInt(current), threshold)
    /\ ~IsClose(previous, current)

\* an interpolation that steps back from y0
CrossingYearBackwards(y0, y1, previous, current, threshold) ==
    QSub(QInt(y0), QDiv(QMul(QSub(threshold, QInt(previous)), QInt(y1 - y0)),
                        QInt(current - previous)))

\* y0 + (threshold - previous) * (y1 - y0) / (current - previous)
CrossingYear(y0, y1, previous, current, threshold) ==
    QAdd(QInt(y0), QDiv(QMul(QSub(threshold, QInt(previous)), QInt(y1 - y0)),
                        QInt(current - previous)))

CrossingAt(years, values, threshold, idx) ==
    CrossingYear(years[idx - 1], years[idx], values[idx - 1], values[idx], threshold)

\* the year of the last crossing of the threshold, None when there is none
InterpolateLastCrossing(years, values, threshold) ==
    IF \E idx \in 2..Len(values) : Crosses(values[idx - 1], values[idx], threshold)
    THEN Some(CrossingAt(years, values, threshold,
                         CHOOSE idx \in 2..Len(values) :
                            /\ Crosses(values[idx - 1], values[idx], threshold)
                            /\ \A j \in (idx + 1)..Len(values) :
                                  ~Crosses(values[j - 1], values[j], threshold)))
    ELSE None

\* the year of the first crossing of the threshold (idx counts from 2: the
\* model's sequences start at 1), None when there is none
_interpolate_crossing_year(years, values, threshold) ==
    IF \E idx \in 2..Len(values) : Crosses(values[idx - 1], values[idx], threshold)
    THEN Some(CrossingAt(years, values, threshold,
                         CHOOSE idx \in 2..Len(values) :
                            /\ Crosses(values[idx - 1], values[idx], threshold)
                            /\ \A j \in 2..(idx - 1) :
                                  ~Crosses(values[j - 1], values[j], threshold)))
    ELSE None

\* (half_value - intercept) / slope
EstimatedYear(line, half_value) == QDiv(QSub(half_value, line.intercept), line.slope)

\* an estimate that takes a falling line for one without decline
EstimateOnRisingLine(line, fit_r2, first_year, half_value) ==
    IF ~QLt(QInt(0), line.slope) THEN <<None, fit_r2>>
    ELSE IF QLt(EstimatedYear(line, half_value), QInt(first_year)) THEN <<None, fit_r2>>
    ELSE <<Some(EstimatedYear(line, half_value)), fit_r2>>

EstimateOnLine(line, fit_r2, first_year, half_value) ==
    IF ~QLt(line.slope, QInt(0)) THEN <<None, fit_r2>>
    ELSE IF QLt(EstimatedYear(line, half_value), QInt(first_year)) THEN <<None, fit_r2>>
    ELSE <<Some(EstimatedYear(line, half_value)), fit_r2>>

EstimateWithFit(line, post_peak_years, post_peak_values, half_value) ==
    EstimateOnLine(line,
                   IF Len(post_peak_values) > 1
                   THEN r2_score(post_peak_values, line.predictions) ELSE QInt(0),
                   post_peak_years[1], half_value)

\* <<estimated year or None, fit_r2>>
_estimate_half_life_via_regression(post_peak_years, post_peak_values, half_value) ==
    EstimateWithFit(_fit_linear_regression(post_peak_years, post_peak_values),
                    post_peak_years, post_peak_values, half_value)

\* A return over a zero demand is divided by the floor 1e-8; the model keeps
\* such a return, of 10^8 at least, as Huge.  One return of that size among
\* ordinary ones drives the volatility index to its upper clamp either way.
Huge == 10000

\* (current - previous) / max(previous, 1e-8) on integers
ReturnOver(previous, current) ==
    IF previous >= 1 THEN Rat(current - previous, previous)
    ELSE IF current = previous THEN QInt(0)
    ELSE QInt(Huge)

\* np.diff(series) / np.maximum(series[:-1], 1e-8)
Returns(series) ==
    Listed([i \in 1..(Len(series) - 1) |-> ReturnOver(series[i], series[i + 1])])

MeanLevel(series) ==
    IF IsCloseToZero(Rat(SumSeq(series), Len(series))) THEN QInt(1)
    ELSE Rat(SumSeq(series), Len(series))

\* np.std(differences) / mean_level, the quotient of the largest difference by
\* the mean level kept to three decimal places
VolByDiff(differences, mean_level) ==
    QMul(Milli(QDiv(QMaxAbs(differences), mean_level)),
         StdRelative(differences, QMaxAbs(differences)))

\* clip(300 * (0.6 * vol_by_diff + 0.4 * vol_by_returns), 0, 100) in units of
\* 10^-4.  Neither volatility is negative, so one of 1 or more alone clips the
\* index to 100; smaller ones are added up in millionths.
ClippedVolatility(vol_by_diff, vol_by_returns) ==
    IF QLe(QInt(1), vol_by_diff) \/ QLe(QInt(1), vol_by_returns) THEN 1000000
    ELSE QRound(QClamp0100(QMul(QAdd(QMul(Rat(6, 10), Micro(vol_by_diff)),
                                     QMul(Rat(4, 10), Micro(vol_by_returns))),
                                QInt(300))), 4)

\* the index in units of 10^-4
_calculate_volatility_index(series) ==
    ClippedVolatility(VolByDiff(Rationals(Diff(series)), MeanLevel(series)),
                      Std(Returns(series)))

QMaxZero(q) == QMax(QInt(0), q)

\* clip(100 - the three penalties, 0, 100) in units of 10^-4.  No penalty is
\* negative, so one of 100 or more alone clips the score to 0; smaller ones are
\* added up in millionths.
ClippedStability(volatility_penalty, decay_penalty, recent_penalty) ==
    IF QLe(QInt(100), decay_penalty) \/ QLe(QInt(100), recent_penalty) THEN 0
    ELSE QRound(QClamp0100(QSub(QSub(QSub(QInt(100), volatility_penalty),
                                     Micro(decay_penalty)),
                                Micro(recent_penalty))), 4)

\* the score in units of 10^-4; volatility_index comes in units of 10^-4
_calculate_stability_score(volatility_index, post_peak_slope, recent_slope) ==
    ClippedStability(QMul(Rat(volatility_index, 10000), Rat(55, 100)),
                     QMul(QMaxZero(QNeg(post_peak_slope)), Rat(35, 100)),
                     QMul(QMaxZero(QNeg(recent_slope)), Rat(25, 100)))

\* slope > 1e-4: upward; slope < -1e-4: downward; else flat
_trend_direction_from_slope(slope) ==
    IF slope.n > slope.d \div 10000 THEN "upward"
    ELSE IF -slope.n > slope.d \div 10000 THEN "downward"
    ELSE "flat"

QClamp01(q) == QMax(QInt(0), QMin(QInt(1), q))

\* the score in units of 10^-4
_calculate_confidence_score(post_peak_points, post_peak_r2, forecast_r2, volatility_index, half_life_found_directly) ==
    QRound(QClamp0100(QMul(
        QAdd(QAdd(QAdd(QMul(Rat(30, 100), QMin(QInt(1), Rat(post_peak_points, 15))),
                       QMul(Rat(35, 100),
                            QClamp01(QDiv(QAdd(post_peak_r2, forecast_r2), QInt(2))))),
                  QMul(Rat(20, 100),
                       QMaxZero(QSub(QInt(1), Rat(volatility_index, 1000000))))),
             QMul(Rat(15, 100), IF half_life_found_directly THEN QInt(1) ELSE Rat(75, 100))),
        QInt(100))), 4)

ForecastPoints(line, future_years) ==
    Listed([i \in 1..Len(future_years) |->
               [year |-> future_years[i],
                demand_index |->
                    QRoundDec(QMaxZero(QAdd(line.intercept,
                                            QMul(line.slope, QInt(future_years[i])))), 6)]])

ForecastOnLine(line, y_recent, last_year, forecast_years) ==
    [forecast |-> ForecastPoints(line, Arange(last_year + 1, forecast_years)),
     recent_slope |-> line.slope,
     forecast_r2 |-> IF Len(y_recent) > 1 THEN r2_score(y_recent, line.predictions)
                     ELSE QInt(0),
     fitted_points |-> Len(y_recent)]

ForecastOnWindow(x_recent, y_recent, last_year, forecast_years) ==
    ForecastOnLine(_fit_linear_regression(x_recent, y_recent), y_recent, last_year,
                   forecast_years)

\* the window the forecast is fitted on: min(recent_window, len(series))
ForecastWindow(recent_window, length) == Min2(recent_window, length)

\* a window that is the length of the series, whatever is asked
WindowOfWholeSeries(recent_window, length) == length

\* forecast_service.py:25, the window half_life_service.py documents:
\* min(max(recent_window, 5), len(series))
ForecastWindowAtLeastFive(recent_window, length) == Min2(Max2(recent_window, 5), length)

_forecast_next_years(years, series, forecast_years, recent_window) ==
    ForecastOnWindow(LastSlice(years, ForecastWindow(recent_window, Len(series))),
                     LastSlice(series, ForecastWindow(recent_window, Len(series))),
                     years[Len(years)], forecast_years)

\* half_life_service.py:196-200: the validated series and its years
Validated(series, config) ==
    [series |-> series, years |-> Listed(Arange(config.start_year, config.required_years))]

PostPeakFit(line, post_peak_values) ==
    [post_peak_slope |-> line.slope,
     post_peak_r2 |-> IF Len(post_peak_values) > 1
                      THEN r2_score(post_peak_values, line.predictions) ELSE QInt(0)]

\* half_life_service.py:203-216
PostPeak(series, years, peak_index) ==
    [peak_index |-> peak_index,
     peak_year |-> years[peak_index + 1],
     peak_value |-> series[peak_index + 1],
     post_peak_years |-> SliceFrom(years, peak_index),
     post_peak_values |-> SliceFrom(series, peak_index),
     half_value |-> Rat(series[peak_index + 1], 2)]
    @@ PostPeakFit(_fit_linear_regression(SliceFrom(years, peak_index),
                                          SliceFrom(series, peak_index)),
                   SliceFrom(series, peak_index))

\* the years counted from the half-life year back to the peak
YearsFromPeakReversed(half_life_year, peak_year) ==
    IF half_life_year.none THEN None
    ELSE Some(QRoundDec(QSub(QInt(peak_year), half_life_year.v), 6))

\* round(float(half_life_year - peak_year), 6), None without a half-life year
YearsFromPeak(half_life_year, peak_year) ==
    IF half_life_year.none THEN None
    ELSE Some(QRoundDec(QSub(half_life_year.v, QInt(peak_year)), 6))

\* half_life_service.py:221-225
Fallback(estimate, post_peak_r2) ==
    [half_life_year |-> estimate[1],
     post_peak_r2 |-> QMax(post_peak_r2, estimate[2]),
     half_life_estimation_method |->
        IF estimate[1].none THEN "not_reached" ELSE "regression_estimate"]

\* half_life_service.py:218-225
HalfLifeYear(crossing, l) ==
    IF ~crossing.none
    THEN [half_life_year |-> crossing, post_peak_r2 |-> l.post_peak_r2,
          half_life_estimation_method |-> "observed"]
    ELSE Fallback(_estimate_half_life_via_regression(l.post_peak_years, l.post_peak_values,
                                                     l.half_value),
                  l.post_peak_r2)

WithYearsFromPeak(found, peak_year) ==
    [half_life_years_from_peak |-> YearsFromPeak(found.half_life_year, peak_year)] @@ found

\* half_life_service.py:218-230
HalfLife(l) ==
    WithYearsFromPeak(
        HalfLifeYear(_interpolate_crossing_year(l.post_peak_years, l.post_peak_values,
                                                l.half_value), l),
        l.peak_year)

Signals(l, forecast, volatility_index) ==
    [stability_score |->
        _calculate_stability_score(volatility_index, l.post_peak_slope, forecast.recent_slope),
     volatility_index |-> volatility_index,
     trend_direction |-> _trend_direction_from_slope(forecast.recent_slope),
     confidence_score |->
        _calculate_confidence_score(Len(l.post_peak_values), l.post_peak_r2,
                                    forecast.forecast_r2, volatility_index,
                                    l.half_life_estimation_method = "observed")]

\* half_life_service.py:250-286
Analytics(l, config, forecast) ==
    [input |-> [data_points |-> Len(l.series), start_year |-> l.years[1],
                end_year |-> l.years[Len(l.years)]],
     peak |-> [year |-> l.peak_year, demand_index |-> l.peak_value],
     decay |-> [post_peak_slope |-> QRoundDec(l.post_peak_slope, 8),
                half_value_threshold |-> QRoundDec(l.half_value, 6)],
     half_life |-> [year |-> IF l.half_life_year.none THEN None
                             ELSE Some(QRoundDec(l.half_life_year.v, 6)),
                    years_from_peak |-> l.half_life_years_from_peak,
                    estimation_method |-> l.half_life_estimation_method],
     signals |-> Signals(l, forecast, l.volatility_index),
     forecast |-> [model |-> "linear_regression_recent_window",
                   window_years |-> Min2(config.recent_window, Len(l.series)),
                   recent_slope |-> QRoundDec(forecast.recent_slope, 8),
                   fit_r2 |-> QRoundDec(forecast.forecast_r2, 8),
                   next_5_years |-> forecast.forecast],
     quality |-> [post_peak_fit_r2 |-> QRoundDec(l.post_peak_r2, 8),
                  peak_to_last_delta |-> l.series[Len(l.series)] - l.peak_value]]

-----------------------------------------------------------------------------
(* gap_analysis_service.py: compare_user_skills_with_region_top_skills     *)
(*                                                                         *)
(* A string is the sequence of its words and of its pieces of white space  *)
(* " "; a Python value is a record of its type.                            *)

PyList(items) == [type |-> "list", items |-> items]

\* a value that is no list
NotAList == [type |-> "NoneType"]

\* str.casefold() of one word: on the words of the model it is str.lower(),
\* but for the sharp s, which it writes as ss
CasefoldWord(w) ==
    CASE w = "Maße" -> "masse"
      [] w = "MASSE" -> "masse"
      [] w = "SQL" -> "sql"
      [] w = "Sql" -> "sql"
      [] OTHER -> LowerWord(w)

\* skill.casefold()
Casefold(skill) == Listed([i \in 1..Len(skill) |-> CasefoldWord(skill[i])])

\* " ".join(skill.strip().split()): the words, one blank between them
Cleaned(skill) ==
    LET IsWord(w) == w # " "
    IN  SelectSeq(skill, IsWord)

RECURSIVE NormalizedUpTo(_, _)
\* the list normalized of the first n skills: seen holds the casefold of
\* every skill of it
NormalizedUpTo(skills, n) ==
    IF n = 0 THEN <<>>
    ELSE IF Cleaned(skills[n]) = <<>> THEN NormalizedUpTo(skills, n - 1)
    ELSE IF \E j \in 1..Len(NormalizedUpTo(skills, n - 1)) :
                Casefold(NormalizedUpTo(skills, n - 1)[j]) = Casefold(Cleaned(skills[n]))
         THEN NormalizedUpTo(skills, n - 1)
    ELSE Append(NormalizedUpTo(skills, n - 1), Cleaned(skills[n]))

_normalize_skills(skills) == NormalizedUpTo(skills, Len(skills))

\* {skill.casefold(): skill for skill in skills}: one entry for each key, at
\* the place of the first skill of the key, with the last skill of the key
CasefoldLookup(skills) ==
    LET IsFirst(i) == \A j \in 1..(i - 1) : Casefold(skills[j]) # Casefold(skills[i])
        LastOf(i) == CHOOSE k \in i..Len(skills) :
                        /\ Casefold(skills[k]) = Casefold(skills[i])
                        /\ \A j \in (k + 1)..Len(skills) :
                              Casefold(skills[j]) # Casefold(skills[i])
        firsts == SelectSeq([i \in 1..Len(skills) |-> i], IsFirst)
    IN  Listed([k \in 1..Len(firsts) |->
                   [key |-> Casefold(skills[firsts[k]]), skill |-> skills[LastOf(firsts[k])]]])

\* key in lookup
HasKey(lookup, key) == \E i \in 1..Len(lookup) : lookup[i].key = key

\* [lookup[key] for key in lookup if key not in other]
SkillsOutside(lookup, other) ==
    LET Outside(entry) == ~HasKey(other, entry.key)
        kept == SelectSeq(lookup, Outside)
    IN  Listed([i \in 1..Len(kept) |-> kept[i].skill])

\* [lookup[key] for key in lookup if key in other]
SkillsInside(lookup, other) ==
    LET Inside(entry) == HasKey(other, entry.key)
        kept == SelectSeq(lookup, Inside)
    IN  Listed([i \in 1..Len(kept) |-> kept[i].skill])

\* the share of the region that is covered, where the code has the share that is not
CoverageScore(saturated, region) ==
    QRound(QClamp0100(QMul(Rat(saturated, region), QInt(100))), 4)

\* round(max(0.0, min(100.0, (1.0 - coverage_ratio) * 100.0)), 4) in units of 10^-4
GapScore(saturated, region) ==
    QRound(QClamp0100(QMul(QSub(QInt(1), Rat(saturated, region)), QInt(100))), 4)

SkillGap(missing_skills, saturation_skills, gap_score) ==
    [missing_skills |-> missing_skills, saturation_skills |-> saturation_skills,
     gap_score |-> gap_score]

GapOfLookups(user_lookup, region_lookup, region) ==
    SkillGap(SkillsOutside(region_lookup, user_lookup),
             SkillsInside(user_lookup, region_lookup),
             GapScore(Len(SkillsInside(user_lookup, region_lookup)), region))

GapOfNormalized(normalized_user, normalized_region) ==
    IF normalized_region = <<>> THEN SkillGap(<<>>, <<>>, 0)
    ELSE GapOfLookups(CasefoldLookup(normalized_user), CasefoldLookup(normalized_region),
                      Len(normalized_region))

compare_user_skills_with_region_top_skills(user_skills, region_top_skills) ==
    IF user_skills.type # "list" \/ region_top_skills.type # "list"
    THEN Raise("ValueError", "Both user_skills and region_top_skills must be lists of strings.")
    ELSE Return(GapOfNormalized(_normalize_skills(user_skills.items),
                                _normalize_skills(region_top_skills.items)))

-----------------------------------------------------------------------------
(* gap_analysis_service.py: evaluate_volatility_and_risk                   *)

\* the decimal [i, f, k] as a rational
DecToQ(dec) == Rat(dec.i * Pow10(dec.k) + dec.f, Pow10(dec.k))

\* np.mean of a list of integers
Mean(values) == Rat(SumSeq(values), Len(values))

\* 25.0 without a half-life, else max(0, min(100, 100 - 2 * years))
HalfLifeRisk(half_life_years) ==
    IF half_life_years.none THEN QInt(25)
    ELSE QClamp0100(QSub(QInt(100), QMul(QInt(2), DecToQ(half_life_years.v))))

\* the weighed sum as it is, not clamped
RiskScoreUnclamped(volatility_index, competition_pressure, half_life_risk, confidence_score) ==
    QAdd(Rat(42 * volatility_index + 10 * (1000000 - confidence_score), 1000000),
         QAdd(Micro(QMul(Rat(28, 100), competition_pressure)),
              Micro(QMul(Rat(20, 100), half_life_risk))))

\* 0.42 * volatility_index + 0.28 * competition_pressure + 0.20 * half_life_risk
\* + 0.10 * (100 - confidence_score), clamped to [0, 100]; the two scores come
\* in units of 10^-4, the other two terms are added in millionths
RiskScore(volatility_index, competition_pressure, half_life_risk, confidence_score) ==
    QClamp0100(
        QAdd(Rat(42 * volatility_index + 10 * (1000000 - confidence_score), 1000000),
             QAdd(Micro(QMul(Rat(28, 100), competition_pressure)),
                  Micro(QMul(Rat(20, 100), half_life_risk)))))

\* the level of the score before it is rounded
RiskLevel(risk_score) ==
    IF QLe(QInt(70), risk_score) THEN "high"
    ELSE IF QLe(QInt(40), risk_score) THEN "medium"
    ELSE "low"

RiskReport(volatility_index, confidence_score, competition_pressure, demand_volatility, risk_score) ==
    [volatility |-> volatility_index,
     risk |-> [risk_score |-> QRound(risk_score, 4),
               risk_level |-> RiskLevel(risk_score),
               drivers |-> [competition_pressure |-> QRoundDec(competition_pressure, 4),
                            demand_volatility |-> QRoundDec(demand_volatility, 6),
                            confidence_penalty |-> 1000000 - confidence_score]]]

\* the analytics always carry signals and half_life: the defaults of the .get
\* calls are not used
evaluate_volatility_and_risk(demand_data, competition_data, half_life_analytics) ==
    RiskReport(half_life_analytics.signals.volatility_index,
               half_life_analytics.signals.confidence_score,
               Mean(competition_data),
               Std(Returns(demand_data)),
               RiskScore(half_life_analytics.signals.volatility_index,
                         Mean(competition_data),
                         HalfLifeRisk(half_life_analytics.half_life.years_from_peak),
                         half_life_analytics.signals.confidence_score))

-----------------------------------------------------------------------------
(* stability_radar_service.py                                              *)

\* round(max(0.0, min(100.0, value)), 4) in units of 10^-4
_clamp_0_100(value) == QRound(QClamp0100(value), 4)

\* np.isclose(a, b) on rationals: |a - b| <= 1e-8 + 1e-5 * |b|
QIsClose(a, b) ==
    QLe(QAbs(QSub(a, b)), QAdd(Rat(1, 100000000), QMul(Rat(1, 100000), QAbs(b))))

\* _normalize_relative_position without its midpoint: a band of no width puts
\* the value at its lower end
NormalizeFromLower(current, lower, upper) ==
    IF QIsClose(upper, lower) THEN 0
    ELSE _clamp_0_100(QMul(QDiv(QSub(current, lower), QSub(upper, lower)), QInt(100)))

\* in units of 10^-4
_normalize_relative_position(current, lower, upper) ==
    IF QIsClose(upper, lower) THEN 500000
    ELSE _clamp_0_100(QMul(QDiv(QSub(current, lower), QSub(upper, lower)), QInt(100)))

\* sorted(values)
Ascending(values) == SortedByKey(values, [i \in 1..Len(values) |-> <<values[i]>>])

\* the value at the fractional place position, counted from 0, of the sorted
\* list: linear between the two neighbours
Between(sorted, position) ==
    IF position.n \div position.d + 2 > Len(sorted) THEN QInt(sorted[Len(sorted)])
    ELSE QAdd(QInt(sorted[position.n \div position.d + 1]),
              QMul(Rat(position.n % position.d, position.d),
                   QInt(sorted[position.n \div position.d + 2]
                        - sorted[position.n \div position.d + 1])))

\* np.percentile(values, q), of the default linear method, on sorted(values)
PercentileOfSorted(sorted, q) == Between(sorted, Rat((Len(sorted) - 1) * q, 100))

\* the place of the last value between the 10th and the 90th percentile
PlaceInSorted(last, sorted) ==
    _normalize_relative_position(QInt(last), PercentileOfSorted(sorted, 10),
                                 PercentileOfSorted(sorted, 90))

_compute_demand_strength(demand_data) ==
    PlaceInSorted(demand_data[Len(demand_data)], Ascending(demand_data))

\* a and b in millionths: their product, the last digits cut
MulMicro(a, b) ==
    (a \div 1000) * (b \div 1000)
    + ((a \div 1000) * (b % 1000) + (a % 1000) * (b \div 1000)) \div 1000

SquareMicro(a) == MulMicro(a, a)

RECURSIVE PowMicro(_, _)
\* g ^ years in millionths, by squares
PowMicro(g, years) ==
    IF years = 0 THEN 1000000
    ELSE IF years % 2 = 0 THEN SquareMicro(PowMicro(g, years \div 2))
    ELSE MulMicro(SquareMicro(PowMicro(g, years \div 2)), g)

RECURSIVE RootBetween(_, _, _, _)
\* the largest g in lo..hi, in millionths, with g ^ years <= ratio, given that
\* lo is one
RootBetween(lo, hi, years, ratio) ==
    IF lo >= hi THEN lo
    ELSE IF QLe(Rat(PowMicro((lo + hi + 1) \div 2, years), 1000000), ratio)
         THEN RootBetween((lo + hi + 1) \div 2, hi, years, ratio)
         ELSE RootBetween(lo, ((lo + hi + 1) \div 2) - 1, years, ratio)

\* ratio ** (1.0 / years) - 1.0 in millionths, as far as the growth range
\* [-5%, +12%] needs it: a growth below or above the range is reported as its
\* bound, where the normalized position is 0 or 100 already
Cagr(ratio, years) ==
    IF QLt(ratio, Rat(PowMicro(950000, years), 1000000)) THEN -50000
    ELSE RootBetween(950000, 1120000, years, ratio) - 1000000

\* max(value, 1e-6) of an integer
FlooredSalary(value) == IF value >= 1 THEN QInt(value) ELSE Rat(1, 1000000)

_compute_salary_growth(salary_data) ==
    IF Len(salary_data) < 2 THEN 500000
    ELSE _normalize_relative_position(
            Rat(Cagr(QDiv(FlooredSalary(salary_data[Len(salary_data)]),
                          FlooredSalary(salary_data[1])),
                     Max2(1, Len(salary_data) - 1)), 1000000),
            Rat(-5, 100), Rat(12, 100))

_compute_competition_score(competition_data) ==
    PlaceInSorted(competition_data[Len(competition_data)], Ascending(competition_data))

\* 20 for a downward trend, 10 for a flat one, 0 otherwise
TrendPenalty(trend_direction) ==
    IF trend_direction = "downward" THEN 20 ELSE IF trend_direction = "flat" THEN 10 ELSE 0

\* 45.0 without a half-life, else _clamp_0_100(100 - 2.2 * years); in units of 10^-4
AutomationHalfLifeRisk(half_life_years_from_peak) ==
    IF half_life_years_from_peak.none THEN 450000
    ELSE _clamp_0_100(QSub(QInt(100), QMul(Rat(22, 10), DecToQ(half_life_years_from_peak.v))))

WeighedAutomationRisk(volatility_score, competition_score, demand_risk, half_life_risk, trend_penalty) ==
    _clamp_0_100(Rat(28 * volatility_score + 24 * competition_score + 22 * demand_risk
                     + 18 * half_life_risk + 8 * trend_penalty * 10000, 1000000))

\* the scores come and go in units of 10^-4
_compute_automation_risk(volatility_score, competition_score, demand_strength, half_life_years_from_peak, trend_direction) ==
    WeighedAutomationRisk(volatility_score, competition_score, 1000000 - demand_strength,
                          AutomationHalfLifeRisk(half_life_years_from_peak),
                          TrendPenalty(trend_direction))

\* 40.0 without a half-life, else max(0, min(100, 100 - 3.5 * years)), rounded
HalfLifeHealth(years_from_peak) ==
    IF years_from_peak.none THEN 400000
    ELSE QRound(QClamp0100(QSub(QInt(100), QMul(Rat(35, 10), DecToQ(years_from_peak.v)))), 4)

RadarMetrics(demand_strength, salary_growth, competition_score, volatility_score, automation_risk) ==
    [demand_strength |-> _clamp_0_100(Rat(demand_strength, 10000)),
     salary_growth |-> _clamp_0_100(Rat(salary_growth, 10000)),
     competition |-> _clamp_0_100(Rat(competition_score, 10000)),
     volatility |-> _clamp_0_100(Rat(volatility_score, 10000)),
     automation_risk |-> _clamp_0_100(Rat(automation_risk, 10000))]

\* the status that looks at the stability score alone
StatusOfStabilityAlone(stability_score, risk_score) ==
    IF stability_score >= 650000 THEN "stable" ELSE "at_risk"

\* "stable" if stability_score >= 65 and risk_score < 45 else "at_risk"
StabilityStatus(stability_score, risk_score) ==
    IF stability_score >= 650000 /\ risk_score < 450000 THEN "stable" ELSE "at_risk"

StabilityProfile(signals, half_life, volatility_score, risk_score) ==
    [status |-> StabilityStatus(signals.stability_score, risk_score),
     trend_direction |-> signals.trend_direction,
     stability_score |-> signals.stability_score,
     confidence_score |-> signals.confidence_score,
     half_life_health |-> HalfLifeHealth(half_life.years_from_peak),
     volatility_health |-> _clamp_0_100(Rat(1000000 - volatility_score, 10000)),
     risk_health |-> _clamp_0_100(Rat(1000000 - risk_score, 10000))]

RadarOf(signals, half_life, demand_strength, salary_growth, competition_score, volatility_score, risk_score) ==
    [stability_profile |-> StabilityProfile(signals, half_life, volatility_score, risk_score),
     radar_metrics |->
        RadarMetrics(demand_strength, salary_growth, competition_score, volatility_score,
                     _compute_automation_risk(volatility_score, competition_score,
                                              demand_strength, half_life.years_from_peak,
                                              signals.trend_direction))]

\* volatility and the scores of risk come in units of 10^-4
build_stability_radar(half_life_analytics, demand_data, salary_data, competition_data, volatility, risk) ==
    RadarOf(half_life_analytics.signals, half_life_analytics.half_life,
            _compute_demand_strength(demand_data),
            _compute_salary_growth(salary_data),
            _compute_competition_score(competition_data),
            _clamp_0_100(Rat(volatility, 10000)),
            risk.risk_score)

-----------------------------------------------------------------------------
(* simulation_service.py                                                   *)

SimulationServiceError(message) == Raise("SimulationServiceError", message)

\* the bounds themselves refused as well
ValidateInside(value, name, min_value, max_value) ==
    IF QLe(value, QInt(min_value)) \/ QLe(QInt(max_value), value)
    THEN Raise("SimulationServiceError", name)
    ELSE Return(value)

\* the error of a value below min_value or above max_value, else the value;
\* the bounds are whole numbers, which the message shows as floats
_validate_percentage(value, name, min_value, max_value) ==
    IF QLt(value, QInt(min_value)) \/ QLt(QInt(max_value), value)
    THEN SimulationServiceError(name \o " must be between " \o ToString(min_value)
                                \o ".0 and " \o ToString(max_value) \o ".0.")
    ELSE Return(value)

\* simulation_service.py:24-26: max(0.0, min(100.0, value)), not rounded
SimulationClamp(value) == QClamp0100(value)

_risk_level(risk_score) ==
    IF QLe(QInt(70), risk_score) THEN "high"
    ELSE IF QLe(QInt(40), risk_score) THEN "medium"
    ELSE "low"

\* the drop taken at half its strength
DropFactorHalved(demand_drop_pct) ==
    QMax(QInt(0), QSub(QInt(1), QDiv(demand_drop_pct, QInt(200))))

\* max(0.0, 1.0 - demand_drop_pct / 100.0)
DropFactor(demand_drop_pct) == QMax(QInt(0), QSub(QInt(1), QDiv(demand_drop_pct, QInt(100))))

\* max(0.0, 1.0 + pct / 100.0), of the automation increase and of the salary shift
GrowthFactor(pct) == QMax(QInt(0), QAdd(QInt(1), QDiv(pct, QInt(100))))

\* np.linspace(0.0, 1.0, num)[i], i counted from 1
TimeGradient(i, num) == IF num = 1 THEN QInt(0) ELSE Rat(i - 1, num - 1)

\* np.maximum(0.25, 1.0 - (automation_factor - 1.0) * 0.35 * time_gradient)
AutomationPressure(automation_factor, time_gradient) ==
    QMax(Rat(1, 4),
         QSub(QInt(1), QMul(QMul(QSub(automation_factor, QInt(1)), Rat(35, 100)),
                            time_gradient)))

\* np.maximum(demand * drop_factor * automation_pressure, 0.0)
SimulatedDemand(demand, drop_factor, automation_factor) ==
    Listed([i \in 1..Len(demand) |->
        QMax(QMul(QMul(QInt(demand[i]), drop_factor),
                  AutomationPressure(automation_factor, TimeGradient(i, Len(demand)))),
             QInt(0))])

\* np.maximum(salaries * salary_factor, 0.0)
SimulatedSalary(salaries, salary_factor) ==
    Listed([i \in 1..Len(salaries) |-> QMax(QMul(QInt(salaries[i]), salary_factor), QInt(0))])

\* a factor that weighs the automation factor itself, not its excess over 1
CompetitionFactorOfWhole(automation_factor, demand_drop_pct) ==
    QAdd(QAdd(QInt(1), QMul(automation_factor, Rat(45, 100))),
         QDiv(QMax(QInt(0), demand_drop_pct), QInt(200)))

\* 1.0 + (automation_factor - 1.0) * 0.45 + max(0.0, demand_drop_pct) / 200.0
CompetitionFactor(automation_factor, demand_drop_pct) ==
    QAdd(QAdd(QInt(1), QMul(QSub(automation_factor, QInt(1)), Rat(45, 100))),
         QDiv(QMax(QInt(0), demand_drop_pct), QInt(200)))

\* np.maximum(competition * factor, 0.0)
SimulatedCompetition(competition, factor) ==
    Listed([i \in 1..Len(competition) |-> QMax(QMul(QInt(competition[i]), factor), QInt(0))])

\* every value of the series is a whole number
AllWhole(series) == \A i \in 1..Len(series) : series[i].d = 1

\* .tolist() of a simulated series whose values are whole numbers
ToList(series) == Listed([i \in 1..Len(series) |-> series[i].n \div series[i].d])

\* simulation_service.py:50-57: the error of the inputs, if there is one
ScenarioError(a) ==
    IF Len(a.demand_data) # 40
    THEN SimulationServiceError("demand_data must contain exactly 40 years.")
    ELSE IF Len(a.salary_data) # Len(a.demand_data)
            \/ Len(a.competition_data) # Len(a.demand_data)
    THEN SimulationServiceError("salary_data and competition_data must match demand_data length.")
    ELSE IF _validate_percentage(a.automation_increase_pct, "automation_increase_pct", -50, 300).status = "error"
    THEN _validate_percentage(a.automation_increase_pct, "automation_increase_pct", -50, 300)
    ELSE IF _validate_percentage(a.demand_drop_pct, "demand_drop_pct", -95, 100).status = "error"
    THEN _validate_percentage(a.demand_drop_pct, "demand_drop_pct", -95, 100)
    ELSE IF _validate_percentage(a.salary_shift_pct, "salary_shift_pct", -95, 150).status = "error"
    THEN _validate_percentage(a.salary_shift_pct, "salary_shift_pct", -95, 150)
    ELSE [status |-> "ok"]

\* simulation_service.py:59-80: the three simulated series
Simulated(a) ==
    [simulated_demand |->
        SimulatedDemand(a.demand_data, DropFactor(a.demand_drop_pct),
                        GrowthFactor(a.automation_increase_pct)),
     simulated_salary |-> SimulatedSalary(a.salary_data, GrowthFactor(a.salary_shift_pct)),
     simulated_competition |->
        SimulatedCompetition(a.competition_data,
                             CompetitionFactor(GrowthFactor(a.automation_increase_pct),
                                               a.demand_drop_pct))]

\* an adjustment that takes the shocks with their signs
AdjustedRiskSigned(base_risk_score, a) ==
    SimulationClamp(
        QAdd(QAdd(Rat(base_risk_score, 10000),
                  QMul(Rat(22, 100), a.automation_increase_pct)),
             QAdd(QMul(Rat(28, 100), a.demand_drop_pct),
                  QMul(Rat(18, 100), QNeg(a.salary_shift_pct)))))

\* simulation_service.py:93-100, the base risk in units of 10^-4
AdjustedRisk(base_risk_score, a) ==
    SimulationClamp(
        QAdd(QAdd(Rat(base_risk_score, 10000),
                  QMul(Rat(22, 100), QMax(QInt(0), a.automation_increase_pct))),
             QAdd(QMul(Rat(28, 100), QMax(QInt(0), a.demand_drop_pct)),
                  QMul(Rat(18, 100), QMax(QInt(0), QNeg(a.salary_shift_pct))))))

\* an adjustment that credits the last salary of the series, in thousandths,
\* next to the salary shift
AdjustedStabilityOfSalary(base_stability, a) ==
    SimulationClamp(
        QAdd(QSub(QSub(Rat(base_stability, 10000),
                       QMul(Rat(30, 100), QMax(QInt(0), a.automation_increase_pct))),
                  QMul(Rat(35, 100), QMax(QInt(0), a.demand_drop_pct))),
             QAdd(QMul(Rat(15, 100), QMax(QInt(0), a.salary_shift_pct)),
                  Rat(a.salary_data[Len(a.salary_data)], 1000))))

\* simulation_service.py:102-108, the base stability in units of 10^-4
AdjustedStability(base_stability, a) ==
    SimulationClamp(
        QAdd(QSub(QSub(Rat(base_stability, 10000),
                       QMul(Rat(30, 100), QMax(QInt(0), a.automation_increase_pct))),
                  QMul(Rat(35, 100), QMax(QInt(0), a.demand_drop_pct))),
             QMul(Rat(15, 100), QMax(QInt(0), a.salary_shift_pct))))

\* simulation_service.py:110-122, scores in units of 10^-4
ScenarioResult(half_life_analytics, gap_result, adjusted_risk_score, stability_score) ==
    [half_life |-> half_life_analytics.half_life,
     stability |-> [stability_score |-> QRound(stability_score, 4),
                    trend_direction |-> half_life_analytics.signals.trend_direction,
                    confidence_score |-> half_life_analytics.signals.confidence_score],
     risk |-> [risk_score |-> QRound(adjusted_risk_score, 4),
               risk_level |-> _risk_level(adjusted_risk_score),
               base_risk_score |-> gap_result.risk.risk_score]]

\* simulation_service.py:87-122, a being the arguments of simulate_scenario
ScenarioOutcome(half_life_analytics, gap_result, a) ==
    ScenarioResult(half_life_analytics, gap_result,
                   AdjustedRisk(gap_result.risk.risk_score, a),
                   AdjustedStability(half_life_analytics.signals.stability_score, a))

-----------------------------------------------------------------------------
(* forecast_service.py                                                     *)

\* the forecast of a fitted line; fit_r2 is round(fit_r2, 8) of a value the
\* model keeps to three decimal places
ForecastOfLine(line, y_train, window, future_years) ==
    [model |-> "linear_regression_recent_window",
     window_years |-> window,
     fit_r2 |-> IF Len(y_train) > 1 THEN r2_score(y_train, line.predictions) ELSE QInt(0),
     next_5_years |-> ForecastPoints(line, future_years)]

ForecastOfWindow(years, series, window, horizon_years) ==
    ForecastOfLine(_fit_linear_regression(LastSlice(years, window), LastSlice(series, window)),
                   LastSlice(series, window), window,
                   Arange(years[Len(years)] + 1, horizon_years))

build_forecast(demand_data, start_year, horizon_years, recent_window) ==
    IF Len(demand_data) < 8
    THEN Raise("ValueError", "At least 8 data points are required for forecasting.")
    ELSE Return(ForecastOfWindow(Listed(Arange(start_year, Len(demand_data))), demand_data,
                                 ForecastWindowAtLeastFive(recent_window, Len(demand_data)),
                                 horizon_years))

-----------------------------------------------------------------------------
(* analytics_service.py and routes/analytics_routes.py                     *)
(*                                                                         *)
(* A message is the sequence of its words.  The table job_market is the    *)
(* sequence of its rows, in the order the database stores them; the        *)
(* numeric columns hold whole numbers, which float() leaves as they are.   *)

AnalyticsServiceError(message) == Raise("AnalyticsServiceError", message)

JobMarket(country, city, skill, year, demand_index, salary_estimate, competition_index) ==
    [country |-> country, city |-> city, skill |-> skill, year |-> year,
     demand_index |-> demand_index, salary_estimate |-> salary_estimate,
     competition_index |-> competition_index]

\* f"No job market data found for country='{country}', city='{city}', skill='{skill}'."
NoDataMessage(country, city, skill) ==
    <<"No", "job", "market", "data", "found", "for", "country='" \o country \o "',",
      "city='" \o city \o "',", "skill='" \o skill \o "'.">>

\* f"Expected at least 40 yearly records for analytics, received {len(rows)}."
TooFewMessage(received) ==
    <<"Expected", "at", "least", "40", "yearly", "records", "for", "analytics,", "received",
      ToString(received) \o ".">>

\* message.startswith(prefix), the prefix ending with a word
StartsWith(message, prefix) ==
    Len(message) >= Len(prefix) /\ SubSeq(message, 1, Len(prefix)) = prefix

\* the rows of a place and a skill
RowsWhere(db, country, city, skill) ==
    LET Matches(row) == row.country = country /\ row.city = city /\ row.skill = skill
    IN  SelectSeq(db, Matches)

OrderedByYear(rows) == SortedByKey(rows, [i \in 1..Len(rows) |-> <<rows[i].year>>])

_fetch_job_market_rows(db, country, city, skill) ==
    OrderedByYear(RowsWhere(db, country, city, skill))

\* rows[:40]
FirstForty(rows) == SubSeq(rows, 1, Min2(40, Len(rows)))

\* rows[-40:]
LastForty(rows) == LastSlice(rows, 40)

\* the three series of the rows, and the year they start in
SeriesOf(series_rows) ==
    [demand_data |-> Listed([i \in 1..Len(series_rows) |-> series_rows[i].demand_index]),
     salary_data |-> Listed([i \in 1..Len(series_rows) |-> series_rows[i].salary_estimate]),
     competition_data |->
        Listed([i \in 1..Len(series_rows) |-> series_rows[i].competition_index]),
     start_year |-> series_rows[1].year]

\* analytics_service.py:48-57: the error of the rows, if any
RowsError(rows, country, city, skill) ==
    IF Len(rows) = 0 THEN AnalyticsServiceError(NoDataMessage(country, city, skill))
    ELSE IF Len(rows) < 40 THEN AnalyticsServiceError(TooFewMessage(Len(rows)))
    ELSE Return(rows)

FullAnalyticsResponse(half_life_analytics, forecast, gap_result, stability_radar) ==
    [half_life |-> half_life_analytics.half_life,
     forecast |-> forecast,
     stability_profile |-> stability_radar.stability_profile,
     volatility |-> gap_result.volatility,
     risk |-> gap_result.risk,
     radar_metrics |-> stability_radar.radar_metrics]

HTTPException(status_code, detail) ==
    [status |-> "error", error |-> "HTTPException", status_code |-> status_code,
     detail |-> detail]

\* analytics_routes.py:30-33
StatusCodeOf(message) ==
    IF StartsWith(message, <<"No", "job", "market", "data">>) THEN 404 ELSE 422

-----------------------------------------------------------------------------
(* The calls of suggest_skill_pivots the model runs                        *)

MaxCatalog == 4

JavaBackend == <<"Java", "Backend">>

\* " Python Backend": a label with white space before it
PaddedPythonBackend == <<" ", "Python", "Backend">>

PivotSkills == {JavaBackend, <<"Python">>, <<" ">>, PaddedPythonBackend}

\* the catalog entries of the custom catalogs: three labels, each on a calm and
\* on an automation-exposed market, one more market, and one more salary
PoolProfiles ==
    {SkillMarketProfile(s, 152000, 83, 29, a) :
        s \in {<<"Java">>, <<"Python", "Backend">>, JavaBackend},
        a \in {18, 60}}
    \cup {SkillMarketProfile(<<"Data", "Engineering">>, 141000, 81, 31, 24),
          SkillMarketProfile(<<"Backend">>, 100000, 83, 29, 18)}

PivotCatalogs ==
    {[is_none |-> TRUE]}
    \cup {[is_none |-> FALSE, items |-> c] :
            c \in {<<>>} \cup SeqsUpTo(PoolProfiles, 3, MaxCatalog)}

InitPivot ==
    /\ pc = "suggest_skill_pivots"
    /\ args \in [current_skill : PivotSkills, market_profiles : PivotCatalogs]
    /\ locals = NoLocals
    /\ result = NoResult

SuggestSkillPivots ==
    /\ pc = "suggest_skill_pivots"
    /\ result' = suggest_skill_pivots(args.current_skill, args.market_profiles)
    /\ pc' = "done"
    /\ UNCHANGED <<args, locals>>

NextPivot == SuggestSkillPivots

SpecPivot == InitPivot /\ [][NextPivot]_vars

PivotReturned == pc = "done" /\ result.status = "ok"

-----------------------------------------------------------------------------
(* Claims on suggest_skill_pivots                                          *)

ReturnedTiers ==
    <<result.value.safe_pivot, result.value.moderate_pivot, result.value.aggressive_pivot>>

\* the tiers of the call in flight as selected, before pivot_service.py:179-197
SelectedTiers ==
    ChosenPivots(args.current_skill,
                 FilteredProfiles(args.current_skill,
                                  IF args.market_profiles.is_none THEN DEFAULT_MARKET_PROFILES
                                  ELSE args.market_profiles.items))

\* C1: whenever suggest_skill_pivots returns a result, the risk scores of the
\* returned tiers ascend: safe <= moderate <= aggressive.
C1_RiskAscending ==
    PivotReturned =>
        /\ result.value.safe_pivot.risk_score <= result.value.moderate_pivot.risk_score
        /\ result.value.moderate_pivot.risk_score <= result.value.aggressive_pivot.risk_score

\* a call that returned, whose selection had put a higher risk before a lower one
C1_Witness ==
    /\ PivotReturned
    /\ \/ SelectedTiers.safe_pivot.risk_score > SelectedTiers.moderate_pivot.risk_score
       \/ SelectedTiers.moderate_pivot.risk_score > SelectedTiers.aggressive_pivot.risk_score

DefaultJavaBackendCall ==
    /\ pc = "done"
    /\ args.current_skill = JavaBackend
    /\ args.market_profiles.is_none

\* C10: suggest_skill_pivots("Java Backend") on the built-in catalog returns
\* three pairwise distinct target skills, none of them "Java Backend", with
\* safe risk <= moderate risk <= aggressive risk.
C10_JavaBackendDefault ==
    DefaultJavaBackendCall =>
        /\ result.status = "ok"
        /\ \A i, j \in 1..3 : i # j => ReturnedTiers[i].target_skill # ReturnedTiers[j].target_skill
        /\ \A i \in 1..3 : ReturnedTiers[i].target_skill # JavaBackend
        /\ ReturnedTiers[1].risk_score <= ReturnedTiers[2].risk_score
        /\ ReturnedTiers[2].risk_score <= ReturnedTiers[3].risk_score

\* the documented call has returned: Python Backend, Cybersecurity, AI Application Engineering
C10_Witness ==
    /\ DefaultJavaBackendCall
    /\ result.status = "ok"
    /\ result.value.safe_pivot.target_skill = <<"Python", "Backend">>
    /\ result.value.moderate_pivot.target_skill = <<"Cybersecurity">>
    /\ result.value.aggressive_pivot.target_skill = <<"AI", "Application", "Engineering">>

\* the profiles the call in flight resolves its catalog to
ResolvedProfiles ==
    IF args.market_profiles.is_none THEN DEFAULT_MARKET_PROFILES
    ELSE args.market_profiles.items

\* the scored candidates of the call in flight, in the order of the catalog
Candidates == Scored(args.current_skill, FilteredProfiles(args.current_skill, ResolvedProfiles))

\* C11, as stated: whenever suggest_skill_pivots returns, none of the three
\* returned target skills equals the returned current_skill when both are
\* compared in lower case.
C11_CurrentSkillExcluded ==
    PivotReturned =>
        \A i \in 1..3 :
            Lower(ReturnedTiers[i].target_skill) # Lower(result.value.current_skill)

\* candidate c has the least risk of the candidates and, among those of that
\* risk, the highest desirability
LeastRisk(c, candidates) ==
    \A i \in 1..Len(candidates) :
        /\ c.risk_score <= candidates[i].risk_score
        /\ candidates[i].risk_score = c.risk_score
              => candidates[i].desirability <= c.desirability

\* the returned record is the one of candidate c
RecordOf(record, c) ==
    /\ record.target_skill = c.skill
    /\ record.risk_score = c.risk_score
    /\ record.salary_projection = c.salary_projection

OutOfOrder(tiers) ==
    \/ tiers.safe_pivot.risk_score > tiers.moderate_pivot.risk_score
    \/ tiers.moderate_pivot.risk_score > tiers.aggressive_pivot.risk_score

\* the selection of the call in flight left the three risks out of order
Reordered == OutOfOrder(SelectedTiers)

SafeIsLeastRiskAmong(candidates) ==
    \E i \in 1..Len(candidates) :
        /\ LeastRisk(candidates[i], candidates)
        /\ RecordOf(result.value.safe_pivot, candidates[i])

\* the catalog lists a candidate of the minimum risk before one of the same
\* risk and a higher desirability
TiedAtLeastRisk(candidates) ==
    \E i, j \in 1..Len(candidates) :
        /\ i < j
        /\ LeastRisk(candidates[j], candidates)
        /\ candidates[i].risk_score = candidates[j].risk_score
        /\ candidates[i].desirability < candidates[j].desirability

\* C12: in every result safe_pivot is the record of a candidate of minimum
\* risk_score, of the highest desirability among the candidates of that risk,
\* also when the tiers were re-sorted.
C12_SafeIsLeastRisk ==
    PivotReturned => SafeIsLeastRiskAmong(Candidates)

\* a returned call whose tiers were re-sorted and in whose catalog a candidate
\* of the minimum risk comes before one of the same risk and a higher desirability
C12_Witness ==
    /\ PivotReturned
    /\ Reordered
    /\ TiedAtLeastRisk(Candidates)

\* the distance of a risk score, in units of 10^-4, from 50
FromFifty(risk_score) == Abs(risk_score - 500000)

\* candidate c is not the safe pivot and no candidate other than the safe pivot
\* is closer to 50
ClosestToFifty(c, candidates, safe_skill) ==
    /\ c.skill # safe_skill
    /\ \A i \in 1..Len(candidates) :
          candidates[i].skill # safe_skill
              => FromFifty(c.risk_score) <= FromFifty(candidates[i].risk_score)

ModerateIsClosestAmong(candidates) ==
    \E i \in 1..Len(candidates) :
        /\ ClosestToFifty(candidates[i], candidates, result.value.safe_pivot.target_skill)
        /\ RecordOf(result.value.moderate_pivot, candidates[i])

\* the returned tiers are the three records in the order of their risks
InOrderOfRisk(records) ==
    /\ result.value.safe_pivot.risk_score <= result.value.moderate_pivot.risk_score
    /\ result.value.moderate_pivot.risk_score <= result.value.aggressive_pivot.risk_score
    /\ \E order \in [1..3 -> 1..3] :
          /\ \A i, j \in 1..3 : i # j => order[i] # order[j]
          /\ \A k \in 1..3 : ReturnedTiers[k] = records[order[k]]

TiersAsList(tiers) == <<tiers.safe_pivot, tiers.moderate_pivot, tiers.aggressive_pivot>>

\* the returned tiers are the selected records in the order of their risks
MiddleOfSelected == InOrderOfRisk(TiersAsList(SelectedTiers))

\* every candidate carries the skill of the safe pivot
OnlySafeSkill(candidates) ==
    \A i \in 1..Len(candidates) : candidates[i].skill = result.value.safe_pivot.target_skill

\* moderate_pivot is a candidate that no candidate is closer to 50 than
ModerateIsClosestOfAll(candidates) ==
    \E i \in 1..Len(candidates) :
        /\ \A j \in 1..Len(candidates) :
              FromFifty(candidates[i].risk_score) <= FromFifty(candidates[j].risk_score)
        /\ RecordOf(result.value.moderate_pivot, candidates[i])

ModerateAsSelected(candidates) ==
    IF OnlySafeSkill(candidates) THEN ModerateIsClosestOfAll(candidates)
    ELSE ModerateIsClosestAmong(candidates)

\* C13, amended: when the risks of the selected tiers ascend as selected,
\* moderate_pivot is the candidate of another skill than the safe pivot whose
\* risk_score is closest to 50 (the closest of all candidates when every
\* candidate carries the skill of the safe pivot); when they do not, the three
\* selected records are re-sorted by risk_score and moderate_pivot is the
\* middle one of them.
C13_ModerateClosestUnlessReordered ==
    PivotReturned =>
        IF Reordered THEN MiddleOfSelected ELSE ModerateAsSelected(Candidates)

\* a returned call, its tiers in the order of the selection, in which a
\* candidate other than the safe pivot is farther from 50 than the moderate pivot
C13_Witness ==
    /\ PivotReturned
    /\ ~Reordered
    /\ \E i \in 1..Len(Candidates) :
          /\ Candidates[i].skill # result.value.safe_pivot.target_skill
          /\ FromFifty(Candidates[i].risk_score)
                > FromFifty(result.value.moderate_pivot.risk_score)

\* C13, as stated: in every result moderate_pivot is the candidate, other than
\* the safe pivot, whose risk_score is closest to 50.
C13_ModerateClosestTo50 ==
    PivotReturned => ModerateIsClosestAmong(Candidates)

\* the aggressiveness of the safe, the moderate and the aggressive tier
TierAggressiveness == <<Rat(2, 10), Rat(55, 100), Rat(9, 10)>>

\* round(max(1, 3 + (1 - similarity) * 10 + (target_volatility / 100) * 3.5 + a * 4))
DocumentedMonths(similarity, target_volatility, a) ==
    QRound(QMax(QInt(1),
                QAdd(QAdd(QAdd(QInt(3), QMul(QSub(QInt(1), similarity), QInt(10))),
                          QMul(Rat(target_volatility, 100), Rat(35, 10))),
                     QMul(a, QInt(4)))), 0)

\* the record is one of a candidate, with the months of aggressiveness a
EstimatedWith(record, a, candidates) ==
    \E i \in 1..Len(candidates) :
        /\ RecordOf(record, candidates[i])
        /\ record.learning_time_estimate
              = DocumentedMonths(candidates[i].similarity, candidates[i].volatility, a)

\* every tier label shows the months of its own aggressiveness
EstimatedInOrder(candidates) ==
    \A k \in 1..3 : EstimatedWith(ReturnedTiers[k], TierAggressiveness[k], candidates)

\* the three records show the months of the three aggressiveness values, each
\* under some label
EstimatedInSomeOrder(candidates) ==
    \E order \in [1..3 -> 1..3] :
        /\ \A i, j \in 1..3 : i # j => order[i] # order[j]
        /\ \A k \in 1..3 :
              EstimatedWith(ReturnedTiers[order[k]], TierAggressiveness[k], candidates)

\* C14, amended: every returned record shows the months computed with the
\* aggressiveness of the tier it was selected for (0.2 safe, 0.55 moderate,
\* 0.9 aggressive); the label it is returned under is that tier when the risks
\* of the selected tiers ascend as selected, and when the tiers are re-sorted
\* the estimate moves with the record.
C14_MonthsOfSelectedTier ==
    PivotReturned =>
        IF Reordered THEN EstimatedInSomeOrder(Candidates) ELSE EstimatedInOrder(Candidates)

\* a returned call whose tiers were re-sorted, its moderate_pivot showing months
\* that are not those of aggressiveness 0.55
C14_Witness ==
    /\ PivotReturned
    /\ Reordered
    /\ ~EstimatedWith(result.value.moderate_pivot, TierAggressiveness[2], Candidates)

\* C14, as stated: in every result each tier label shows the months of its own
\* aggressiveness: 0.2 under safe_pivot, 0.55 under moderate_pivot, 0.9 under
\* aggressive_pivot.
C14_MonthsOfLabel ==
    PivotReturned => EstimatedInOrder(Candidates)

-----------------------------------------------------------------------------
(* The calls of compute_skill_half_life_analytics the model runs           *)

\* the length of the short series, which stand for the 40 years of the default
ModelYears == 5

\* the values of the short series
DemandValues == {-1, 0, 3, 4, 8}

\* values a unit apart that np.isclose takes for one another
CloseDemandValues == {100000, 100001, 150000, 200001}

RecentWindows == {1, 3, 12}

\* 100, 98, ..., 22
LinearDecline == Listed([i \in 1..40 |-> 100 - 2 * (i - 1)])

\* 60 up to the year k, counted from 0, then 100, 99, 98, ...
PeakAt(k) == Listed([i \in 1..40 |-> IF i <= k THEN 60 ELSE 101 + k - i])

Constant(n, v) == Listed([i \in 1..n |-> v])

DocumentedSeries ==
    {LinearDecline, SubSeq(LinearDecline, 1, 39), LinearDecline \o <<20>>,
     Constant(40, 50), Constant(40, 0), <<>>,
     [LinearDecline EXCEPT ![7] = -1]}
    \cup {PeakAt(k) : k \in {0, 20, 37, 38, 39}}

HalfLifeCalls ==
    [demand_data : SeqsUpTo(DemandValues, ModelYears - 1, ModelYears),
     config : {HalfLifeConfig(ModelYears, 1985, w, 2) : w \in RecentWindows}]
    \cup [demand_data : SeqsUpTo(CloseDemandValues, ModelYears, ModelYears),
          config : {HalfLifeConfig(ModelYears, 0, 3, 2)}]
    \cup [demand_data : DocumentedSeries,
          config : {HalfLifeConfig(40, 1985, w, 5) : w \in RecentWindows}]

InitHalfLife ==
    /\ pc = "_validate_input"
    /\ args \in HalfLifeCalls
    /\ locals = NoLocals
    /\ result = NoResult

\* half_life_service.py:195-200
ValidateInput ==
    /\ pc = "_validate_input"
    /\ IF _validate_input(args.demand_data, args.config).status = "error"
       THEN /\ result' = _validate_input(args.demand_data, args.config)
            /\ pc' = "done"
            /\ UNCHANGED locals
       ELSE /\ locals' = Validated(args.demand_data, args.config)
            /\ pc' = "peak"
            /\ UNCHANGED result
    /\ UNCHANGED args

\* half_life_service.py:202-216
LocatePeak ==
    /\ pc = "peak"
    /\ IF ArgMax(locals.series) >= Len(locals.series) - 2
       THEN /\ result' = HalfLifeAnalyticsError("Insufficient post-peak observations to compute decay dynamics.")
            /\ pc' = "done"
            /\ UNCHANGED locals
       ELSE /\ locals' = PostPeak(locals.series, locals.years, ArgMax(locals.series)) @@ locals
            /\ pc' = "half_life"
            /\ UNCHANGED result
    /\ UNCHANGED args

\* half_life_service.py:218-230
EstimateHalfLife ==
    /\ pc = "half_life"
    /\ locals' = HalfLife(locals) @@ locals
    /\ pc' = "forecast"
    /\ UNCHANGED <<args, result>>

\* half_life_service.py:232-237
Forecast ==
    /\ pc = "forecast"
    /\ locals' = [forecast |-> _forecast_next_years(locals.years, locals.series,
                                                    args.config.forecast_years,
                                                    args.config.recent_window)] @@ locals
    /\ pc' = "volatility"
    /\ UNCHANGED <<args, result>>

\* half_life_service.py:239
VolatilityIndex ==
    /\ pc = "volatility"
    /\ locals' = [volatility_index |-> _calculate_volatility_index(locals.series)] @@ locals
    /\ pc' = "signals"
    /\ UNCHANGED <<args, result>>

\* half_life_service.py:240-286
ReturnAnalytics ==
    /\ pc = "signals"
    /\ result' = Return(Analytics(locals, args.config, locals.forecast))
    /\ pc' = "done"
    /\ UNCHANGED <<args, locals>>

NextHalfLife ==
    \/ ValidateInput
    \/ LocatePeak
    \/ EstimateHalfLife
    \/ Forecast
    \/ VolatilityIndex
    \/ ReturnAnalytics

SpecHalfLife == InitHalfLife /\ [][NextHalfLife]_vars

HalfLifeReturned == pc = "done" /\ result.status = "ok"

HalfLifeRaised == pc = "done" /\ result.status = "error"

-----------------------------------------------------------------------------
(* The scores of a series: compute_skill_half_life_analytics, and then     *)
(* evaluate_volatility_and_risk and build_stability_radar on its result,   *)
(* as analytics_service.py:62-82 calls them                                *)

\* a series of n values v, but for its last value
EndingIn(n, v, last) == [Constant(n, v) EXCEPT ![n] = last]

SalarySeries(n) ==
    {EndingIn(n, 100, last) : last \in {0, 90, 105, 200}} \cup {EndingIn(n, 0, 100)}

CompetitionSeries(n) ==
    {Constant(n, 50), Constant(n, 500), Constant(n, -50),
     [EndingIn(n, 50, 80) EXCEPT ![1] = 20]}

ScoredSeries(demands, n, config) ==
    [demand_data : demands, salary_data : SalarySeries(n),
     competition_data : CompetitionSeries(n), config : {config}]

\* a first year of 100, 38 years of 60 and a last year of 20
Plateau == <<100>> \o Constant(38, 60) \o <<20>>

ScoreCalls ==
    ScoredSeries(SeqsUpTo(DemandValues \ {-1, 3}, ModelYears, ModelYears), ModelYears,
                 HalfLifeConfig(ModelYears, 1985, 12, 2))
    \cup ScoredSeries({LinearDecline, PeakAt(0), PeakAt(20), PeakAt(37), PeakAt(38), Plateau},
                      40, DefaultHalfLifeConfig)

InitScores ==
    /\ pc = "_validate_input"
    /\ args \in ScoreCalls
    /\ locals = NoLocals
    /\ result = NoResult

\* analytics_service.py:69-73
EvaluateVolatilityAndRisk ==
    /\ pc = "done"
    /\ result.status = "ok"
    /\ "competition_data" \in DOMAIN args
    /\ locals' = [gap_result |-> evaluate_volatility_and_risk(args.demand_data,
                                                              args.competition_data,
                                                              result.value)] @@ locals
    /\ pc' = "build_stability_radar"
    /\ UNCHANGED <<args, result>>

\* analytics_service.py:74-81
BuildStabilityRadar ==
    /\ pc = "build_stability_radar"
    /\ locals' = [stability_radar |->
                     build_stability_radar(result.value, args.demand_data, args.salary_data,
                                           args.competition_data,
                                           locals.gap_result.volatility,
                                           locals.gap_result.risk)] @@ locals
    /\ pc' = "scored"
    /\ UNCHANGED <<args, result>>

NextScores ==
    \/ ValidateInput
    \/ LocatePeak
    \/ EstimateHalfLife
    \/ Forecast
    \/ VolatilityIndex
    \/ ReturnAnalytics
    \/ EvaluateVolatilityAndRisk
    \/ BuildStabilityRadar

SpecScores == InitScores /\ [][NextScores]_vars

-----------------------------------------------------------------------------
(* Claims on compute_skill_half_life_analytics                             *)

\* the index, from 0, of the leftmost occurrence of the maximum of the series
LeftmostPeak(series) ==
    (CHOOSE i \in 1..Len(series) :
        /\ \A j \in 1..Len(series) : series[j] <= series[i]
        /\ \A j \in 1..(i - 1) : series[j] # series[i]) - 1

\* C2: whenever compute_skill_half_life_analytics returns a result,
\* half_life.years_from_peak is null or at least 0, for an observed crossing
\* as for a regression estimate.
C2_YearsFromPeakNotNegative ==
    HalfLifeReturned =>
        \/ result.value.half_life.years_from_peak.none
        \/ result.value.half_life.years_from_peak.v.i >= 0

\* a result whose half-life year is a regression estimate beyond the peak
C2_Witness ==
    /\ HalfLifeReturned
    /\ result.value.half_life.estimation_method = "regression_estimate"
    /\ ~result.value.half_life.years_from_peak.none
    /\ result.value.half_life.years_from_peak.v.i >= 1

\* the series of the call is of the wrong length, has a negative value, or is
\* constant
Invalid(demand_data, config) ==
    \/ Len(demand_data) # config.required_years
    \/ \E i \in 1..Len(demand_data) : demand_data[i] < 0
    \/ \A i \in 1..Len(demand_data) : demand_data[i] = demand_data[1]

\* C4: a call whose series has not exactly required_years (by default 40)
\* values, or a negative value, or all values equal, ends in a validation
\* error once validated and never returns a result.
C4_InvalidSeriesRaises ==
    (pc # "_validate_input" /\ Invalid(args.demand_data, args.config)) =>
        /\ pc = "done"
        /\ result.status = "error"
        /\ result.error = "HalfLifeAnalyticsError"
        /\ locals = NoLocals

\* the constant 40-value series has been rejected for its lack of variation
C4_Witness ==
    /\ pc = "done"
    /\ args.demand_data = Constant(40, 50)
    /\ result.status = "error"
    /\ result.message = "Demand data has no variation; half-life analytics is not meaningful."

InsufficientPostPeak ==
    /\ result.status = "error"
    /\ result.message = "Insufficient post-peak observations to compute decay dynamics."

\* C5: for a series that passed validation, the call fails with the
\* insufficient-post-peak error exactly when the leftmost index of the maximum
\* is among the last two (38 or 39 of 40), and otherwise reports that leftmost
\* occurrence as the peak.
C5_LeftmostPeak ==
    (pc = "done" /\ locals # NoLocals) =>
        IF LeftmostPeak(args.demand_data) >= args.config.required_years - 2
        THEN InsufficientPostPeak
        ELSE /\ result.status = "ok"
             /\ result.value.peak.year
                    = args.config.start_year + LeftmostPeak(args.demand_data)
             /\ result.value.peak.demand_index
                    = args.demand_data[LeftmostPeak(args.demand_data) + 1]

\* a 40-value series with its peak at index 38 has been refused
C5_Witness ==
    /\ pc = "done"
    /\ Len(args.demand_data) = 40
    /\ locals # NoLocals
    /\ LeftmostPeak(args.demand_data) = 38
    /\ InsufficientPostPeak

\* the peak value of the call's series
PeakValue == args.demand_data[LeftmostPeak(args.demand_data) + 1]

\* the post-peak pairs (idx - 1, idx), the peak's own included, whose earlier
\* value is at least half the peak, and whose later value at most
Straddling ==
    {idx \in (LeftmostPeak(args.demand_data) + 2)..Len(args.demand_data) :
        /\ 2 * args.demand_data[idx - 1] >= PeakValue
        /\ PeakValue >= 2 * args.demand_data[idx]}

\* those of two different values
StraddlingDifferent ==
    {idx \in Straddling : args.demand_data[idx - 1] # args.demand_data[idx]}

\* those of two values that np.isclose tells apart: they differ by more than
\* 1e-8 + 1e-5 * |later value|
StraddlingApart ==
    {idx \in Straddling : ~IsClose(args.demand_data[idx - 1], args.demand_data[idx])}

First(pairs) == CHOOSE idx \in pairs : \A other \in pairs : idx <= other

\* the year of the pair's earlier value
YearBefore(idx) == args.config.start_year + idx - 2

\* the year at which the line through the pair reaches half the peak
Interpolated(idx) ==
    QAdd(QInt(YearBefore(idx)),
         Rat(PeakValue - 2 * args.demand_data[idx - 1],
             2 * (args.demand_data[idx] - args.demand_data[idx - 1])))

ObservedAt(idx) ==
    /\ result.value.half_life.estimation_method = "observed"
    /\ result.value.half_life.year = Some(QRoundDec(Interpolated(idx), 6))
    /\ DecLe(DecInt(YearBefore(idx), 6), result.value.half_life.year.v)
    /\ DecLe(result.value.half_life.year.v, DecInt(YearBefore(idx) + 1, 6))

PostPeakLine ==
    _fit_linear_regression(
        SliceFrom(Arange(args.config.start_year, Len(args.demand_data)),
                  LeftmostPeak(args.demand_data)),
        SliceFrom(args.demand_data, LeftmostPeak(args.demand_data)))

\* the year at which that line reaches half the peak
LineYear == QDiv(QSub(Rat(PeakValue, 2), PostPeakLine.intercept), PostPeakLine.slope)

NotReached ==
    /\ result.value.half_life.estimation_method = "not_reached"
    /\ result.value.half_life.year = None
    /\ result.value.half_life.years_from_peak = None

\* C7: without an observed crossing in the post-peak subsequence, the method
\* is "not_reached", with year and years_from_peak null, if the post-peak
\* regression slope is >= 0 or the regression line reaches peak/2 before the
\* peak year; otherwise it is "regression_estimate" and half_life.year is the
\* year at which the regression line reaches peak/2.
C7_FallbackOnRegression ==
    (HalfLifeReturned /\ StraddlingApart = {}) =>
        IF ~QLt(PostPeakLine.slope, QInt(0)) THEN NotReached
        ELSE IF QLt(LineYear, QInt(args.config.start_year + LeftmostPeak(args.demand_data)))
        THEN NotReached
        ELSE /\ result.value.half_life.estimation_method = "regression_estimate"
             /\ result.value.half_life.year = Some(QRoundDec(LineYear, 6))

\* a result estimated on a falling regression line, no crossing observed
C7_Witness ==
    /\ HalfLifeReturned
    /\ StraddlingApart = {}
    /\ QLt(PostPeakLine.slope, QInt(0))
    /\ result.value.half_life.estimation_method = "regression_estimate"

\* the call on the series 100, 98, ..., 22 from 1985 has ended
LinearDeclineCall ==
    /\ pc = "done"
    /\ args.demand_data = LinearDecline
    /\ args.config.start_year = 1985

LinearDeclineObserved ==
    /\ result.status = "ok"
    /\ result.value.peak = [year |-> 1985, demand_index |-> 100]
    /\ result.value.decay.half_value_threshold = DecInt(50, 6)
    /\ result.value.half_life.estimation_method = "observed"
    /\ ~result.value.half_life.years_from_peak.none

\* C8, as amended: for the 40-value series declining evenly from 100 to 22
\* from 1985 the call reports the peak (1985, 100), the threshold 50, the
\* method "observed" and a half-life 25 years from the peak, in 2010, where
\* the series is 50.
C8_LinearDeclineAt25 ==
    LinearDeclineCall =>
        /\ LinearDeclineObserved
        /\ result.value.half_life.years_from_peak.v = DecInt(25, 6)
        /\ result.value.half_life.year.v = DecInt(2010, 6)

\* the documented call has returned its result
C8_Witness ==
    /\ LinearDeclineCall
    /\ result.status = "ok"
    /\ args.demand_data[26] = 50

\* C8, as stated: the same call reports the peak (1985, 100), the threshold
\* 50, the method "observed" and a half-life about 38.46 years from the peak.
C8_LinearDeclineAt38 ==
    LinearDeclineCall =>
        /\ LinearDeclineObserved
        /\ result.value.half_life.years_from_peak.v.i = 38
        /\ result.value.half_life.years_from_peak.v.f \in 455000..465000

\* C9, as stated: the forecast of a call on 40 values is fitted on the last
\* min(max(recent_window, 5), 40) points, and forecast.window_years is that
\* number.
C9_WindowAtLeastFive ==
    (HalfLifeReturned /\ Len(args.demand_data) = 40) =>
        /\ locals.forecast.fitted_points
              = ForecastWindowAtLeastFive(args.config.recent_window, 40)
        /\ result.value.forecast.window_years
              = ForecastWindowAtLeastFive(args.config.recent_window, 40)

-----------------------------------------------------------------------------
(* Claims on the scores                                                    *)

\* a score, in units of 10^-4, within [0, 100]
InRange(score) == 0 <= score /\ score <= 1000000

\* C3: for a valid series of required_years (by default 40) demand values,
\* with any salary and competition series of the same length, every score
\* lies in [0, 100]: stability_score, volatility_index and confidence_score of
\* the half-life result, risk_score of the risk evaluation, and the five
\* radar axes.
C3_ScoresInRange ==
    /\ (pc \in {"done", "build_stability_radar", "scored"} /\ result.status = "ok") =>
          /\ InRange(result.value.signals.stability_score)
          /\ InRange(result.value.signals.volatility_index)
          /\ InRange(result.value.signals.confidence_score)
    /\ pc \in {"build_stability_radar", "scored"} =>
          InRange(locals.gap_result.risk.risk_score)
    /\ pc = "scored" =>
          /\ InRange(locals.stability_radar.radar_metrics.demand_strength)
          /\ InRange(locals.stability_radar.radar_metrics.salary_growth)
          /\ InRange(locals.stability_radar.radar_metrics.competition)
          /\ InRange(locals.stability_radar.radar_metrics.volatility)
          /\ InRange(locals.stability_radar.radar_metrics.automation_risk)

\* 40 years scored, with a competition that alone weighs more than 100 in the
\* risk, and a salary growth within its range
C3_Witness ==
    /\ pc = "scored"
    /\ Len(args.demand_data) = 40
    /\ args.competition_data = Constant(40, 500)
    /\ locals.gap_result.risk.risk_score = 1000000
    /\ locals.stability_radar.radar_metrics.salary_growth \in 1..999999

\* the call has run to the end of build_stability_radar
RadarBuilt == pc = "scored"

StatusReported == locals.stability_radar.stability_profile.status

\* C18: the status of build_stability_radar is "stable" exactly when the
\* stability_score of the half-life result is at least 65 and the risk_score
\* it is given is below 45, and "at_risk" otherwise.
C18_StableIffStabilityAndRisk ==
    RadarBuilt =>
        /\ StatusReported \in {"stable", "at_risk"}
        /\ StatusReported = "stable" <=>
              /\ result.value.signals.stability_score >= 650000
              /\ locals.gap_result.risk.risk_score < 450000

\* a stability score of 65 or more next to a risk score of 45 or more:
\* reported at risk
C18_Witness ==
    /\ RadarBuilt
    /\ result.value.signals.stability_score >= 650000
    /\ locals.gap_result.risk.risk_score >= 450000
    /\ StatusReported = "at_risk"

\* np.percentile(series, 10) and np.percentile(series, 90) are one value
BandOfNoWidth(sorted) ==
    QEq(PercentileOfSorted(sorted, 10), PercentileOfSorted(sorted, 90))

\* C19: when the 10th and the 90th percentile of the demand series, or of the
\* competition series, are the same value, the radar axis of that series
\* (demand_strength, competition) is exactly 50, whatever the last value of
\* the series is.
C19_MidpointOfNoBand ==
    RadarBuilt =>
        /\ BandOfNoWidth(Ascending(args.demand_data)) =>
              locals.stability_radar.radar_metrics.demand_strength = 500000
        /\ BandOfNoWidth(Ascending(args.competition_data)) =>
              locals.stability_radar.radar_metrics.competition = 500000

\* both series have a band of no width and a last value away from it
C19_Witness ==
    /\ RadarBuilt
    /\ args.demand_data = Plateau
    /\ args.competition_data = [EndingIn(40, 50, 80) EXCEPT ![1] = 20]
    /\ BandOfNoWidth(Ascending(args.demand_data))
    /\ BandOfNoWidth(Ascending(args.competition_data))
    /\ locals.stability_radar.radar_metrics.demand_strength = 500000
    /\ locals.stability_radar.radar_metrics.competition = 500000


-----------------------------------------------------------------------------
(* The calls of simulate_scenario the model runs                           *)

\* a salary shift that takes the risk of the linear decline, 33.2844 with a
\* competition of 80, to 39.99998
NearMediumShift == Rat(-335779, 9000)

AutomationShocks == {QInt(v) : v \in {-51, -50, 0, 300, 301}}

DemandShocks == {QInt(v) : v \in {-96, -95, 0, 50, 100, 101}}

SalaryShocks == {QInt(v) : v \in {-96, -95, 0, 150, 151}}

Scenario(demand_data, salary_data, competition_data, automation_increase_pct, demand_drop_pct, salary_shift_pct) ==
    [demand_data |-> demand_data, salary_data |-> salary_data,
     competition_data |-> competition_data,
     automation_increase_pct |-> automation_increase_pct,
     demand_drop_pct |-> demand_drop_pct, salary_shift_pct |-> salary_shift_pct]

\* series of 40 and of 39 values, no shocks
ScenariosOfLengths ==
    {Scenario(d, s, c, QInt(0), QInt(0), QInt(0)) :
        d \in {LinearDecline, SubSeq(LinearDecline, 1, 39)},
        s \in {Constant(40, 100), Constant(39, 100)},
        c \in {Constant(40, 80), Constant(39, 80)}}

\* shocks inside, on and outside their ranges
ScenariosOfShocks ==
    {Scenario(d, Constant(40, 100), Constant(40, 80), a, p, s) :
        d \in {LinearDecline, Constant(40, 31200)},
        a \in AutomationShocks, p \in DemandShocks, s \in SalaryShocks}

\* demand drops and salary shifts on several markets
ScenariosOfMarkets ==
    {Scenario(d, s, c, QInt(0), p, shift) :
        d \in {LinearDecline, PeakAt(20)},
        s \in {Constant(40, 100), EndingIn(40, 100, 200)},
        c \in {Constant(40, 80), Constant(40, 400)},
        p \in {QInt(0), QInt(50)},
        shift \in {QInt(-95), QInt(0), QInt(150), NearMediumShift}}

\* an automation that eases by 2000/63 per cent: a pressure of
\* 1 + (i - 1) / 351 in the year i, and a competition of 6/7
AutomationRelief == Rat(-2000, 63)

\* 7020 for five years, then 702 less every five years
RelievedDemand == Listed([i \in 1..40 |-> 702 * (10 - (i - 1) \div 5)])

\* a demand that grows by half under an automation that eases
ScenariosOfRelief ==
    {Scenario(RelievedDemand, Constant(40, 100), Constant(40, 70), AutomationRelief,
              QInt(-50), shift) : shift \in {QInt(0), QInt(150)}}

\* the arguments are refused, or every simulated value of the demand and of
\* the competition is a whole number
OfWholeNumbers(a) ==
    \/ ScenarioError(a).status = "error"
    \/ /\ AllWhole(Simulated(a).simulated_demand)
       /\ AllWhole(Simulated(a).simulated_competition)

ScenarioCalls ==
    {a \in ScenariosOfLengths \cup ScenariosOfShocks \cup ScenariosOfMarkets
            \cup ScenariosOfRelief :
        OfWholeNumbers(a)}

InitSimulate ==
    /\ pc = "simulate_scenario"
    /\ args \in ScenarioCalls
    /\ locals = NoLocals
    /\ result = NoResult

\* the call of compute_skill_half_life_analytics(simulated_demand.tolist()),
\* with the call of simulate_scenario it returns to
RecomputationCall(a, simulated) ==
    [demand_data |-> ToList(simulated.simulated_demand),
     config |-> DefaultHalfLifeConfig,
     caller |-> [args |-> a,
                 simulated_salary |-> simulated.simulated_salary,
                 simulated_competition |-> ToList(simulated.simulated_competition)]]

\* simulation_service.py:50-83
SimulateScenario ==
    /\ pc = "simulate_scenario"
    /\ IF ScenarioError(args).status = "error"
       THEN /\ result' = ScenarioError(args)
            /\ pc' = "simulated"
            /\ UNCHANGED args
       ELSE /\ args' = RecomputationCall(args, Simulated(args))
            /\ pc' = "_validate_input"
            /\ UNCHANGED result
    /\ UNCHANGED locals

\* simulation_service.py:84-85
RecomputationFailed ==
    /\ pc = "done"
    /\ "caller" \in DOMAIN args
    /\ result.status = "error"
    /\ result' = SimulationServiceError(result.message)
    /\ pc' = "simulated"
    /\ UNCHANGED <<args, locals>>

GapResultOfScenario ==
    evaluate_volatility_and_risk(args.demand_data, args.caller.simulated_competition,
                                 result.value)

\* simulation_service.py:87-122
ReturnScenario ==
    /\ pc = "done"
    /\ "caller" \in DOMAIN args
    /\ result.status = "ok"
    /\ locals' = [gap_result |-> GapResultOfScenario] @@ locals
    /\ result' = Return(ScenarioOutcome(result.value, GapResultOfScenario, args.caller.args))
    /\ pc' = "simulated"
    /\ UNCHANGED args

NextSimulate ==
    \/ SimulateScenario
    \/ ValidateInput
    \/ LocatePeak
    \/ EstimateHalfLife
    \/ Forecast
    \/ VolatilityIndex
    \/ ReturnAnalytics
    \/ RecomputationFailed
    \/ ReturnScenario

SpecSimulate == InitSimulate /\ [][NextSimulate]_vars

-----------------------------------------------------------------------------
(* Claims on simulate_scenario                                             *)

\* the arguments of the call of simulate_scenario in flight
ScenarioArgs == IF "caller" \in DOMAIN args THEN args.caller.args ELSE args

Simulated40 ==
    /\ Len(ScenarioArgs.demand_data) = 40
    /\ Len(ScenarioArgs.salary_data) = 40
    /\ Len(ScenarioArgs.competition_data) = 40

Within(value, low, high) == QLe(QInt(low), value) /\ QLe(value, QInt(high))

ShocksInRange ==
    /\ Within(ScenarioArgs.automation_increase_pct, -50, 300)
    /\ Within(ScenarioArgs.demand_drop_pct, -95, 100)
    /\ Within(ScenarioArgs.salary_shift_pct, -95, 150)

FullDrop == Simulated40 /\ ShocksInRange /\ ScenarioArgs.demand_drop_pct = QInt(100)

\* C15: with three series of 40 values, shocks in range and demand_drop_pct
\* = 100, the simulated demand is all zeros and simulate_scenario ends in the
\* no-variation error of the half-life recomputation; it returns no result.
C15_FullDropHasNoVariation ==
    FullDrop =>
        /\ "caller" \in DOMAIN args => args.demand_data = Constant(40, 0)
        /\ pc = "simulated" =>
              /\ result.status = "error"
              /\ result.error = "SimulationServiceError"
              /\ result.message
                    = "Demand data has no variation; half-life analytics is not meaningful."

\* a call with a demand drop of 100 on a declining demand, the automation
\* increase and the salary shift on their upper bounds, has ended
C15_Witness ==
    /\ FullDrop
    /\ pc = "simulated"
    /\ result.status = "error"
    /\ ScenarioArgs.demand_data = LinearDecline
    /\ ScenarioArgs.automation_increase_pct = QInt(300)
    /\ ScenarioArgs.salary_shift_pct = QInt(150)

\* C16: with three series of 40 values, simulate_scenario raises its error
\* before it computes anything exactly when a shock is outside its range,
\* automation_increase_pct in [-50, 300], demand_drop_pct in [-95, 100],
\* salary_shift_pct in [-95, 150], the bounds being inside.
C16_ShocksValidated ==
    (Simulated40 /\ pc # "simulate_scenario") =>
        IF ShocksInRange THEN "caller" \in DOMAIN args
        ELSE /\ "caller" \notin DOMAIN args
             /\ pc = "simulated"
             /\ result.status = "error"
             /\ result.error = "SimulationServiceError"
             /\ locals = NoLocals

\* a call with every shock on its lower bound has passed the validation
C16_Witness ==
    /\ "caller" \in DOMAIN args
    /\ ScenarioArgs.automation_increase_pct = QInt(-50)
    /\ ScenarioArgs.demand_drop_pct = QInt(-95)
    /\ ScenarioArgs.salary_shift_pct = QInt(-95)

\* the level that goes with a reported score, in units of 10^-4
LevelOf(risk_score) ==
    IF risk_score >= 700000 THEN "high"
    ELSE IF risk_score >= 400000 THEN "medium"
    ELSE "low"

\* C17, as stated: in every output of evaluate_volatility_and_risk and of
\* simulate_scenario, risk_level is the level of the risk_score reported next
\* to it: high from 70, medium from 40, low below.
C17_LevelOfReportedScore ==
    /\ "gap_result" \in DOMAIN locals
          => locals.gap_result.risk.risk_level = LevelOf(locals.gap_result.risk.risk_score)
    /\ (pc = "simulated" /\ result.status = "ok")
          => result.value.risk.risk_level = LevelOf(result.value.risk.risk_score)

-----------------------------------------------------------------------------
(* The requests GET /analytics/full the model runs                         *)

\* the most rows the table holds of one place and skill
MaxRows == 42

RowCounts == {0, 1, 39, 40, 41, MaxRows}

\* a demand of 100 in 1986 that loses 2 a year; a salary and a competition
\* that gain 1 a year
DecliningRow(skill, year) ==
    JobMarket("India", "Pune", skill, year, 100 - 2 * (year - 1986), 100 + (year - 1980),
              40 + (year - 1980))

\* a demand of 50 in every year
FlatRow(skill, year) == JobMarket("India", "Pune", skill, year, 50, 100, 50)

\* the count last years up to 2025, in the order of the years
RowsOf(skill, count, declining) ==
    Listed([i \in 1..count |->
               IF declining THEN DecliningRow(skill, 2025 - count + i)
               ELSE FlatRow(skill, 2025 - count + i)])

Reversed(rows) == Listed([i \in 1..Len(rows) |-> rows[Len(rows) + 1 - i]])

Tables ==
    {RowsOf("Python", count, declining) \o RowsOf("Java", others, TRUE) :
        count \in RowCounts, declining \in BOOLEAN, others \in {0, 40}}

Requests ==
    [db : Tables \cup {Reversed(db) : db \in Tables}, country : {"India"},
     city : {"Pune", "Oslo"}, skill : {"Python", "Java"}]

InitAnalytics ==
    /\ pc = "full_analytics"
    /\ args \in Requests
    /\ locals = NoLocals
    /\ result = NoResult

\* analytics_service.py:47-62: the call of compute_skill_half_life_analytics
\* on the series of the rows
SeriesCall(a, series_rows) ==
    [config |-> DefaultHalfLifeConfig, caller |-> a] @@ SeriesOf(series_rows)

\* analytics_routes.py:29 and analytics_service.py:47-62
BuildFullAnalyticsResponse ==
    /\ pc = "full_analytics"
    /\ LET rows == _fetch_job_market_rows(args.db, args.country, args.city, args.skill)
       IN  IF RowsError(rows, args.country, args.city, args.skill).status = "error"
           THEN /\ result' = RowsError(rows, args.country, args.city, args.skill)
                /\ pc' = "raised"
                /\ UNCHANGED args
           ELSE /\ args' = SeriesCall(args, LastForty(rows))
                /\ pc' = "_validate_input"
                /\ UNCHANGED result
    /\ UNCHANGED locals

\* analytics_routes.py:30-33
FullAnalyticsFailed ==
    /\ pc = "raised"
    /\ result' = HTTPException(StatusCodeOf(result.message), result.message)
    /\ pc' = "responded"
    /\ UNCHANGED <<args, locals>>

\* the error of compute_skill_half_life_analytics is no AnalyticsServiceError:
\* it leaves build_full_analytics_response and full_analytics as it is
HalfLifeErrorPropagates ==
    /\ pc = "done"
    /\ "caller" \in DOMAIN args
    /\ result.status = "error"
    /\ pc' = "responded"
    /\ UNCHANGED <<args, locals, result>>

\* analytics_service.py:63-89 and analytics_routes.py:29; build_forecast, which
\* the code calls before evaluate_volatility_and_risk, reads the series alone
ReturnFullAnalytics ==
    /\ pc = "scored"
    /\ "caller" \in DOMAIN args
    /\ result' = Return(FullAnalyticsResponse(
                           result.value,
                           build_forecast(args.demand_data, args.start_year, 5, 12).value,
                           locals.gap_result, locals.stability_radar))
    /\ pc' = "responded"
    /\ UNCHANGED <<args, locals>>

NextAnalytics ==
    \/ BuildFullAnalyticsResponse
    \/ FullAnalyticsFailed
    \/ ValidateInput
    \/ LocatePeak
    \/ EstimateHalfLife
    \/ Forecast
    \/ VolatilityIndex
    \/ ReturnAnalytics
    \/ HalfLifeErrorPropagates
    \/ EvaluateVolatilityAndRisk
    \/ BuildStabilityRadar
    \/ ReturnFullAnalytics

SpecAnalytics == InitAnalytics /\ [][NextAnalytics]_vars

(* Claims on build_full_analytics_response                                 *)

\* the request in flight
Request == IF "caller" \in DOMAIN args THEN args.caller ELSE args

\* the rows of the table that the request is about
Requested ==
    {Request.db[i] : i \in {j \in 1..Len(Request.db) :
                              /\ Request.db[j].country = Request.country
                              /\ Request.db[j].city = Request.city
                              /\ Request.db[j].skill = Request.skill}}

\* the row that has exactly later rows of later years among the rows
RowBefore(rows, later) ==
    CHOOSE row \in rows : Cardinality({r \in rows : r.year > row.year}) = later

\* the series are those of the 40 latest years among the rows, oldest first
OfLatestForty(a, rows) ==
    /\ Len(a.demand_data) = 40 /\ Len(a.salary_data) = 40 /\ Len(a.competition_data) = 40
    /\ \A i \in 1..40 :
          /\ a.demand_data[i] = RowBefore(rows, 40 - i).demand_index
          /\ a.salary_data[i] = RowBefore(rows, 40 - i).salary_estimate
          /\ a.competition_data[i] = RowBefore(rows, 40 - i).competition_index
    /\ a.start_year = RowBefore(rows, 39).year

RowsErrorRaised ==
    result.status = "error" /\ result.error \in {"AnalyticsServiceError", "HTTPException"}

AnsweredWith(status_code, message) ==
    /\ pc \in {"full_analytics", "raised", "responded"}
    /\ pc = "raised" => result = AnalyticsServiceError(message)
    /\ pc = "responded" => result = HTTPException(status_code, message)

\* C20: build_full_analytics_response raises the "no data" error when no row
\* matches and the "insufficient records" error when 1 to 39 rows match, and
\* the route answers the first with 404 and the second with 422; with 40 rows
\* or more neither error is raised and the series are those of the 40 most
\* recent rows, in ascending order of the year.
C20_RowsOfFullAnalytics ==
    /\ Cardinality(Requested) = 0 =>
          AnsweredWith(404, NoDataMessage(Request.country, Request.city, Request.skill))
    /\ Cardinality(Requested) \in 1..39 =>
          AnsweredWith(422, TooFewMessage(Cardinality(Requested)))
    /\ Cardinality(Requested) >= 40 =>
          /\ pc # "raised"
          /\ ~RowsErrorRaised
          /\ pc # "full_analytics" => OfLatestForty(args, Requested)

\* more than 40 rows, stored latest first, answered with the analytics
C20_Witness ==
    /\ pc = "responded"
    /\ result.status = "ok"
    /\ Cardinality(Requested) > 40
    /\ Request.db[1].year > Request.db[2].year
    /\ result.value.forecast.next_5_years[1].year = 2026

-----------------------------------------------------------------------------
(* The calls of compare_user_skills_with_region_top_skills the model runs  *)

\* the longest list of user skills and of region skills
MaxUserSkills == 2
MaxRegionSkills == 3

SkillStrings ==
    {<<"SQL">>, <<" ", "Sql", " ">>, <<"AI">>, <<"Maße">>, <<"MASSE">>,
     <<"Data", " ", "Science">>, <<" ">>}

SkillLists(longest) == {PyList(items) : items \in SeqsUpTo(SkillStrings, 0, longest)}

GapCalls ==
    [user_skills : SkillLists(MaxUserSkills) \cup {NotAList},
     region_top_skills : SkillLists(MaxRegionSkills) \cup {NotAList}]

InitGap ==
    /\ pc = "compare_user_skills_with_region_top_skills"
    /\ args \in GapCalls
    /\ locals = NoLocals
    /\ result = NoResult

\* gap_analysis_service.py:37-72
CompareSkills ==
    /\ pc = "compare_user_skills_with_region_top_skills"
    /\ result' = compare_user_skills_with_region_top_skills(args.user_skills,
                                                             args.region_top_skills)
    /\ pc' = "compared"
    /\ UNCHANGED <<args, locals>>

NextGap == CompareSkills

SpecGap == InitGap /\ [][NextGap]_vars

(* Claims on compare_user_skills_with_region_top_skills                    *)

\* the places of the list whose string is not blank and has no case-fold
\* match before it
FirstSeen(skills) ==
    LET Kept(i) ==
            /\ Cleaned(skills[i]) # <<>>
            /\ \A j \in 1..(i - 1) : Casefold(Cleaned(skills[j])) # Casefold(Cleaned(skills[i]))
    IN  SelectSeq([i \in 1..Len(skills) |-> i], Kept)

\* the list trimmed, blanks dropped, de-duplicated by case-fold
Normal(skills) == Listed([k \in 1..Len(FirstSeen(skills)) |-> Cleaned(skills[FirstSeen(skills)[k]])])

Matched(skill, others) == \E j \in 1..Len(others) : Casefold(others[j]) = Casefold(skill)

\* the skills of the list with no case-fold match among the others
Unmatched(skills, others) ==
    LET Alone(skill) == ~Matched(skill, others)
    IN  SelectSeq(skills, Alone)

Saturating(skills, others) ==
    LET Met(skill) == Matched(skill, others)
    IN  SelectSeq(skills, Met)

Compared == pc = "compared" /\ result.status = "ok"

GapListsAsDocumented(gap, user, region) ==
    /\ gap.missing_skills = Unmatched(region, user)
    /\ gap.saturation_skills = Saturating(user, region)
    /\ Len(gap.missing_skills) + Len(gap.saturation_skills) = Len(region)
    /\ region = <<>> => gap.gap_score = 0

\* 100 * (1 - saturated / region), in units of 10^-4
ExactGap(saturated, region) == Rat(1000000 * (region - saturated), region)

\* C21 as documented: the lists are those of the normalized inputs, and
\* gap_score is 100 * (1 - |saturation_skills| / |normalized region|), 0 for an
\* empty normalized region.
C21_GapScoreExact ==
    Compared =>
        /\ GapListsAsDocumented(result.value, Normal(args.user_skills.items),
                                Normal(args.region_top_skills.items))
        /\ Normal(args.region_top_skills.items) # <<>> =>
              QEq(QInt(result.value.gap_score),
                  ExactGap(Len(result.value.saturation_skills),
                           Len(Normal(args.region_top_skills.items))))

\* C21, the score as the code reports it: missing_skills are the normalized
\* region skills with no case-fold match among the user's, saturation_skills
\* the normalized user skills with a match in the region, their sizes add up
\* to the size of the normalized region, and gap_score is
\* 100 * (1 - |saturation_skills| / |normalized region|) rounded to four
\* decimal places, 0 for an empty normalized region.
C21_GapScoreRounded ==
    Compared =>
        /\ GapListsAsDocumented(result.value, Normal(args.user_skills.items),
                                Normal(args.region_top_skills.items))
        /\ Normal(args.region_top_skills.items) # <<>> =>
              result.value.gap_score =
                  QRound(Rat(100 * (Len(Normal(args.region_top_skills.items))
                                    - Len(result.value.saturation_skills)),
                             Len(Normal(args.region_top_skills.items))), 4)

\* one of three region skills is matched, in another casing and with other
\* white space: a gap of 66.6667
C21_Witness ==
    /\ Compared
    /\ args.user_skills.items = <<<<" ", "Sql", " ">>, <<"MASSE">>>>
    /\ args.region_top_skills.items = <<<<"AI">>, <<"Data", " ", "Science">>, <<"Maße">>>>
    /\ result.value.missing_skills = <<<<"AI">>, <<"Data", "Science">>>>
    /\ result.value.saturation_skills = <<<<"MASSE">>>>
    /\ result.value.gap_score = 666667

-----------------------------------------------------------------------------
(* The calls of build_forecast the model runs                              *)

\* count values from first on, each step more than the one before
Stepping(first, step, count) == Listed([i \in 1..count |-> first + step * (i - 1)])

ForecastSeries ==
    {Stepping(first, step, count) :
        first \in {0, 70}, step \in {-10, 0, 3}, count \in {7, 8, 9}}
    \cup {[Stepping(40, -5, count) EXCEPT ![count - 1] = 90] : count \in {7, 8, 12}}
    \cup {LinearDecline}

ForecastCalls ==
    [demand_data : ForecastSeries, start_year : {1985, 2018}, horizon_years : {0, 1, 5},
     recent_window : {-1, 3, 5, 8, 12, 50}]

InitForecast ==
    /\ pc = "build_forecast"
    /\ args \in ForecastCalls
    /\ locals = NoLocals
    /\ result = NoResult

\* forecast_service.py:19-48
BuildForecast ==
    /\ pc = "build_forecast"
    /\ result' = build_forecast(args.demand_data, args.start_year, args.horizon_years,
                                args.recent_window)
    /\ pc' = "forecast_built"
    /\ UNCHANGED <<args, locals>>

NextForecast == BuildForecast

SpecForecast == InitForecast /\ [][NextForecast]_vars

(* Claims on build_forecast                                                *)

ForecastBuilt == pc = "forecast_built"

\* the year of the last value of the series
LastYear == args.start_year + Len(args.demand_data) - 1

-----------------------------------------------------------------------------
(* Claims on suggest_skill_pivots: the three targets                       *)

\* no two of the candidates carry one skill name
DistinctSkills(candidates) ==
    \A i, j \in 1..Len(candidates) : i # j => candidates[i].skill # candidates[j].skill

DistinctTargets(tiers) ==
    /\ tiers[1].target_skill # tiers[2].target_skill
    /\ tiers[1].target_skill # tiers[3].target_skill
    /\ tiers[2].target_skill # tiers[3].target_skill

DistinctAmong(candidates) ==
    (Len(candidates) >= 3 /\ DistinctSkills(candidates)) => DistinctTargets(ReturnedTiers)

\* C23, as stated: when the catalog leaves at least 3 candidates of pairwise
\* distinct skill names, the three target skills that suggest_skill_pivots
\* returns are pairwise distinct.
C23_TargetsPairwiseDistinct == PivotReturned => DistinctAmong(Candidates)

-----------------------------------------------------------------------------
(* Claims on compute_skill_half_life_analytics: the estimation method      *)

\* some value after the peak is at most half the peak
ReachesHalf ==
    \E idx \in (LeftmostPeak(args.demand_data) + 2)..Len(args.demand_data) :
        2 * args.demand_data[idx] <= PeakValue

MethodReported == result.value.half_life.estimation_method

-----------------------------------------------------------------------------
(* Claims on simulate_scenario: the adjusted risk                          *)

ScenarioReturned == pc = "simulated" /\ result.status = "ok"

\* C25: in every result of simulate_scenario, risk.risk_score is at least
\* risk.base_risk_score and both lie in [0, 100], whatever the shocks in
\* range are, negative automation, negative demand drop and positive salary
\* shift included.
C25_RiskNeverBelowBase ==
    ScenarioReturned =>
        /\ result.value.risk.risk_score >= result.value.risk.base_risk_score
        /\ InRange(result.value.risk.risk_score)
        /\ InRange(result.value.risk.base_risk_score)

\* a result under a negative automation increase, a negative demand drop and
\* a positive salary shift: the risk is the base risk, above 0
C25_Witness ==
    /\ ScenarioReturned
    /\ ScenarioArgs.automation_increase_pct.n < 0
    /\ ScenarioArgs.demand_drop_pct.n < 0
    /\ ScenarioArgs.salary_shift_pct.n > 0
    /\ result.value.risk.base_risk_score > 0
    /\ result.value.risk.risk_score = result.value.risk.base_risk_score

-----------------------------------------------------------------------------
(* Claims on simulate_scenario: no shock                                   *)

\* compute_skill_half_life_analytics(demand_data) of a series it accepts,
\* step by step as half_life_service.py:195-286 goes
PeakLocated(l) == PostPeak(l.series, l.years, ArgMax(l.series)) @@ l

HalfLifeEstimated(l) == HalfLife(l) @@ l

Forecasted(l, config) ==
    [forecast |-> _forecast_next_years(l.years, l.series, config.forecast_years,
                                       config.recent_window),
     volatility_index |-> _calculate_volatility_index(l.series)] @@ l

AnalyticsOfLocals(l, config) == Analytics(l, config, l.forecast)

AnalyticsOf(demand_data, config) ==
    AnalyticsOfLocals(
        Forecasted(HalfLifeEstimated(PeakLocated(Validated(demand_data, config))), config),
        config)

NoShock ==
    /\ ScenarioArgs.automation_increase_pct = QInt(0)
    /\ ScenarioArgs.demand_drop_pct = QInt(0)
    /\ ScenarioArgs.salary_shift_pct = QInt(0)

Unshocked(outcome, half_life_analytics, risk) ==
    /\ outcome.half_life = half_life_analytics.half_life
    /\ outcome.stability.stability_score = half_life_analytics.signals.stability_score
    /\ outcome.stability.trend_direction = half_life_analytics.signals.trend_direction
    /\ outcome.stability.confidence_score = half_life_analytics.signals.confidence_score
    /\ outcome.risk.risk_score = outcome.risk.base_risk_score
    /\ outcome.risk.base_risk_score = risk.risk_score

UnshockedAnalysis(outcome, a, half_life_analytics) ==
    Unshocked(outcome, half_life_analytics,
              evaluate_volatility_and_risk(a.demand_data, a.competition_data,
                                           half_life_analytics).risk)

-----------------------------------------------------------------------------
(* Claims on simulate_scenario: the salary series                          *)

\* compute_skill_half_life_analytics(demand_data) as simulate_scenario sees
\* it: the analytics, or the error it raises
HalfLifeOutcome(demand_data, config) ==
    IF _validate_input(demand_data, config).status = "error"
    THEN _validate_input(demand_data, config)
    ELSE IF ArgMax(demand_data) >= Len(demand_data) - 2
    THEN HalfLifeAnalyticsError("Insufficient post-peak observations to compute decay dynamics.")
    ELSE Return(AnalyticsOf(demand_data, config))

SimulationOfAnalytics(half_life, a, simulated) ==
    IF half_life.status = "error" THEN SimulationServiceError(half_life.message)
    ELSE Return(ScenarioOutcome(
                   half_life.value,
                   evaluate_volatility_and_risk(ToList(simulated.simulated_demand),
                                                ToList(simulated.simulated_competition),
                                                half_life.value),
                   a))

SimulationOfSeries(a, simulated) ==
    SimulationOfAnalytics(HalfLifeOutcome(ToList(simulated.simulated_demand),
                                          DefaultHalfLifeConfig),
                          a, simulated)

\* what simulate_scenario returns or raises on the arguments a
SimulationOf(a) ==
    IF ScenarioError(a).status = "error" THEN ScenarioError(a)
    ELSE SimulationOfSeries(a, Simulated(a))

\* salary series of one length
SalariesOfLength(n) == {Constant(n, 100), Constant(n, 0), EndingIn(n, 100, 200)}

ScenarioEnded == pc = "simulated"

\* C27: a call of simulate_scenario ends as the call does that differs from
\* it in the values of salary_data alone: in the same result, or in the same
\* error.
C27_SalaryValuesIgnored ==
    ScenarioEnded =>
        \A salary_data \in SalariesOfLength(Len(ScenarioArgs.salary_data)) :
            result = SimulationOf([ScenarioArgs EXCEPT !.salary_data = salary_data])

\* a result under a salary shift, for a salary series that doubles in its
\* last year
C27_Witness ==
    /\ ScenarioEnded
    /\ result.status = "ok"
    /\ ScenarioArgs.salary_data = EndingIn(40, 100, 200)
    /\ ScenarioArgs.salary_shift_pct = QInt(150)
    /\ result.value.stability.stability_score > 0

-----------------------------------------------------------------------------
(* Claims on GET /analytics/full: the failures                             *)

\* the request has left full_analytics
Responded == pc = "responded"

\* C28, as stated: every validation failure raised while the full analytics
\* response is built, a half-life validation failure on 40 rows or more
\* included, leaves the route as the HTTPException of a 404 or a 422.
C28_FailuresMappedByRoute ==
    (Responded /\ result.status = "error") =>
        /\ result.error = "HTTPException"
        /\ result.status_code \in {404, 422}

-----------------------------------------------------------------------------
(* chat_service.py: ConversationMemoryStore                                *)
(*                                                                         *)
(* The store is shared by the threads that serve the requests.  Here pc,   *)
(* args and result hold one entry for each thread, and locals holds the    *)
(* store, the frame of each thread's call, the clock the time stamps are   *)
(* read from, and the list of the turns each session was given, in the     *)
(* order the append statements ran.  The code keeps no such list; the      *)
(* claims on the store compare its histories with it.  A statement under   *)
(* "with self._lock" is a step of the thread that holds the lock.          *)

\* chat_service.py:16-22
ConversationTurn(role, content, timestamp) ==
    [role |-> role, content |-> content, timestamp |-> timestamp]

\* chat_service.py:25-30
RegionContext(country, city, skill) == [country |-> country, city |-> city, skill |-> skill]

\* the lock nobody holds
NoThread == 0

EmptyDict == [key \in {} |-> <<>>]

\* chat_service.py:36-40
ConversationMemoryStore(max_turns_per_session) ==
    [max_turns_per_session |-> max_turns_per_session,
     _history |-> EmptyDict,
     _contexts |-> EmptyDict,
     _lock |-> NoThread]

\* dict.get(key, default)
DictGet(dict, key, default) == IF key \in DOMAIN dict THEN dict[key] ELSE default

\* the dict after dict.setdefault(key, default)
DictSetDefault(dict, key, default) ==
    IF key \in DOMAIN dict THEN dict ELSE (key :> default) @@ dict

\* the dict after dict[key] = value
DictSet(dict, key, value) == (key :> value) @@ dict

\* the turns kept when the first ones are given up instead of the last ones
TrimmedAtTail(turns, max_turns_per_session) ==
    IF Len(turns) > max_turns_per_session
    THEN SubSeq(turns, 1, Max2(max_turns_per_session, 0))
    ELSE turns

\* chat_service.py:60-61, del turns[: len(turns) - self.max_turns_per_session]
Trimmed(turns, max_turns_per_session) ==
    IF Len(turns) > max_turns_per_session
    THEN SubSeq(turns, Len(turns) - max_turns_per_session + 1, Len(turns))
    ELSE turns

\* chat_service.py:63-65, history: a copy of the list, or an empty list
HistoryOf(memory, session_id) == DictGet(memory._history, session_id, <<>>)

\* what a thread that is in no call holds as arguments: the calls it has made
Idle(made) == [fn |-> "none", made |-> made]

\* the frame a call returns to
Caller(at, call) == [pc |-> at, args |-> call]

AppendTurnCall(session_id, role, content, caller) ==
    [fn |-> "append_turn", session_id |-> session_id, role |-> role,
     content |-> content, caller |-> caller]

\* with self._lock: the thread waits while another thread holds the lock
LockOpenTo(t) == locals._memory._lock \in {NoThread, t}

\* chat_service.py:51, with self._lock
AcquireLock(t) ==
    /\ pc[t] = "append_turn"
    /\ LockOpenTo(t)
    /\ pc' = [pc EXCEPT ![t] = "setdefault"]
    /\ locals' = [locals EXCEPT !._memory._lock = t]
    /\ UNCHANGED <<args, result>>

\* chat_service.py:52, turns = self._history.setdefault(session_id, [])
SetDefaultTurns(t) ==
    /\ pc[t] = "setdefault"
    /\ pc' = [pc EXCEPT ![t] = "append"]
    /\ locals' = [locals EXCEPT !._memory._history =
                      DictSetDefault(@, args[t].session_id, <<>>)]
    /\ UNCHANGED <<args, result>>

\* chat_service.py:53-59, turns.append(ConversationTurn(...)); the clock is
\* read for the time stamp and has not gone back since it was last read
AppendTurn(t) ==
    /\ pc[t] = "append"
    /\ \E now \in {locals.clock, locals.clock + 1} :
          LET turn == ConversationTurn(args[t].role, args[t].content, now)
              session_id == args[t].session_id
          IN  locals' = [locals EXCEPT
                  !._memory._history[session_id] = Append(@, turn),
                  !.clock = now,
                  !.appended = DictSet(@, session_id,
                                   Append(DictGet(@, session_id, <<>>), turn))]
    /\ pc' = [pc EXCEPT ![t] = "trim"]
    /\ UNCHANGED <<args, result>>

\* chat_service.py:60-61
TrimTurns(t) ==
    /\ pc[t] = "trim"
    /\ pc' = [pc EXCEPT ![t] = "release"]
    /\ locals' = [locals EXCEPT !._memory._history[args[t].session_id] =
                      Trimmed(@, locals._memory.max_turns_per_session)]
    /\ UNCHANGED <<args, result>>

\* chat_service.py:51, the end of the with block, and the return to the caller
ReleaseLock(t) ==
    /\ pc[t] = "release"
    /\ pc' = [pc EXCEPT ![t] = args[t].caller.pc]
    /\ args' = [args EXCEPT ![t] = args[t].caller.args]
    /\ locals' = [locals EXCEPT !._memory._lock = NoThread]
    /\ UNCHANGED result

-----------------------------------------------------------------------------
(* The calls of ConversationMemoryStore the model runs                     *)

\* the threads that call the store, and the calls each of them makes
NumThreads == 2
MaxCalls == 2

\* the largest max_turns_per_session a store is made with
MaxTurnLimit == 2

Threads == 1 .. NumThreads
SessionIds == {"s1", "s2"}
Roles == {"user", "assistant"}
Contents == {"hello"}

InitStore ==
    /\ pc = [t \in Threads |-> "idle"]
    /\ args = [t \in Threads |-> Idle(0)]
    /\ \E max_turns_per_session \in 1 .. MaxTurnLimit :
          locals = [_memory |-> ConversationMemoryStore(max_turns_per_session),
                    clock |-> 0,
                    appended |-> EmptyDict]
    /\ result = [t \in Threads |-> NoResult]

\* a thread calls _memory.append_turn(session_id, role, content)
CallAppendTurn(t) ==
    /\ pc[t] = "idle"
    /\ args[t].made < MaxCalls
    /\ \E session_id \in SessionIds, role \in Roles, content \in Contents :
          args' = [args EXCEPT ![t] =
                      AppendTurnCall(session_id, role, content,
                                     Caller("idle", Idle(args[t].made + 1)))]
    /\ pc' = [pc EXCEPT ![t] = "append_turn"]
    /\ UNCHANGED <<locals, result>>

\* chat_service.py:63-65, a thread calls _memory.history(session_id)
CallHistory(t) ==
    /\ pc[t] = "idle"
    /\ args[t].made < MaxCalls
    /\ LockOpenTo(t)
    /\ \E session_id \in SessionIds :
          /\ args' = [args EXCEPT ![t] = Idle(args[t].made + 1)]
          /\ result' = [result EXCEPT ![t] =
                           [status |-> "ok", session_id |-> session_id,
                            value |-> HistoryOf(locals._memory, session_id)]]
    /\ UNCHANGED <<pc, locals>>

NextStore ==
    \E t \in Threads :
        \/ CallAppendTurn(t)
        \/ CallHistory(t)
        \/ AcquireLock(t)
        \/ SetDefaultTurns(t)
        \/ AppendTurn(t)
        \/ TrimTurns(t)
        \/ ReleaseLock(t)

SpecStore == InitStore /\ [][NextStore]_vars

(* Claims on ConversationMemoryStore                                       *)

\* the last n elements of a list, all of them when it has no more than n
MostRecent(turns, n) ==
    LET kept == Min2(Len(turns), Max2(n, 0))
    IN  [i \in 1 .. kept |-> turns[Len(turns) - kept + i]]

\* every turn the session was given, in the order the appends ran
AppendedTo(session_id) == DictGet(locals.appended, session_id, <<>>)

\* what history(session_id) returns to a caller that gets the lock now
HistoryNow(session_id) == HistoryOf(locals._memory, session_id)

\* no append_turn is between its first and its last statement
NoAppendUnderWay == locals._memory._lock = NoThread

HistoriesAreMostRecent ==
    NoAppendUnderWay =>
        \A session_id \in SessionIds :
            /\ Len(HistoryNow(session_id)) <= locals._memory.max_turns_per_session
            /\ HistoryNow(session_id) =
                   MostRecent(AppendedTo(session_id), locals._memory.max_turns_per_session)

\* a step changes the history of a session only as a statement of an
\* append_turn to that session
OnlyOwnSessionChanges ==
    \A session_id \in SessionIds :
        HistoryOf(locals'._memory, session_id) # HistoryNow(session_id) =>
            \E t \in Threads :
                /\ locals._memory._lock = t
                /\ args[t].fn = "append_turn"
                /\ args[t].session_id = session_id

\* C29: whatever the order and the interleaving of the append_turn calls,
\* between the calls every session's history has at most
\* max_turns_per_session turns and is the most recently appended turns of
\* the session in the order they were appended, and a step of an append to
\* one session changes the history of no other session
C29_HistoryIsMostRecentTurns ==
    /\ []HistoriesAreMostRecent
    /\ [][OnlyOwnSessionChanges]_vars

\* both sessions were appended to, one of them more often than the store
\* keeps, every call has returned and the oldest turn is gone
C29_Witness ==
    /\ \A t \in Threads : pc[t] = "idle" /\ args[t].made = MaxCalls
    /\ NoAppendUnderWay
    /\ \E session_id \in SessionIds, other \in SessionIds :
          /\ other # session_id
          /\ Len(AppendedTo(session_id)) > locals._memory.max_turns_per_session
          /\ Len(HistoryNow(session_id)) = locals._memory.max_turns_per_session
          /\ HistoryNow(session_id)[1] # AppendedTo(session_id)[1]
          /\ Len(HistoryNow(other)) = 1

-----------------------------------------------------------------------------
(* chat_service.py: stream_region_aware_assistant                          *)
(*                                                                         *)
(* A message is the sequence of its words.  The generator is run by the    *)
(* thread that consumes it; it is a step of that thread from one access    *)
(* to the store, or one yield, to the next.                                *)

ChatServiceError(message) == Raise("ChatServiceError", message)

\* not text.strip(), for the session ids of the model
IsBlank(text) == text \in {"", " "}

\* chat_service.py:72, _memory = ConversationMemoryStore()
DefaultMaxTurns == 30

\* chat_service.py:75-86; the key is the sequence of its pieces
_has_real_openai_key(openai_api_key) ==
    LET key == Strip(openai_api_key)
    IN  /\ key # <<>>
        /\ key[1] = "sk-"
        /\ \A i \in 1 .. Len(key) :
              key[i] \notin {"replace-with-valid-openai-key", "replace", "example"}

\* chat_service.py:137, 145-149: "marker" in message.lower()
Mentions(message, marker) == \E i \in 1 .. Len(message) : Lower(message)[i] = marker

\* chat_service.py:144-152
Implications(message) ==
    LET found ==
            (IF Mentions(message, "salary") \/ Mentions(message, "pay")
             THEN <<"salary outcomes">> ELSE <<>>)
            \o (IF Mentions(message, "risk") THEN <<"risk increases">> ELSE <<>>)
            \o (IF Mentions(message, "pivot") \/ Mentions(message, "switch")
                THEN <<"pivot feasibility">> ELSE <<>>)
    IN  IF found = <<>> THEN <<"decision quality">> ELSE found

\* chat_service.py:131-183
_rule_based_structured_explanation(user_message, context, history) ==
    [summary |-> [skill |-> context.skill, city |-> context.city,
                  country |-> context.country, history_hint |-> history # <<>>],
     regional_signals |-> <<context.city, context.country, context.skill>>,
     implications |-> Implications(user_message),
     action_plan |-> 3,
     risk_notes |-> 2,
     follow_up_questions |-> 2]

\* json.dumps(structured): a text that json.loads reads back as the dict
JsonText(structured) == [json |-> structured]

\* the text of the tokens the model streamed, which is no JSON here
PlainText(tokens) == [plain |-> tokens]

\* chat_service.py:104-128
_parse_or_wrap_structured_response(text) ==
    IF "json" \in DOMAIN text
    THEN text.json
    ELSE [summary |-> text.plain,
          regional_signals |-> <<>>,
          implications |-> <<>>,
          action_plan |-> 0,
          risk_notes |-> 0,
          follow_up_questions |-> 0]

\* chat_service.py:97-101
_history_to_messages(turns, limit) ==
    LET first == Max2(Len(turns) - limit, 0)
    IN  [i \in 1 .. Len(turns) - first |->
            [role |-> turns[first + i].role, content |-> turns[first + i].content]]

StreamCall(session_id, message, context, made) ==
    [fn |-> "stream_region_aware_assistant", session_id |-> session_id,
     message |-> message, context |-> context, made |-> made]

NoFrame == [session_id |-> "", message |-> <<>>,
            context |-> NoLocals, history |-> <<>>, mode |-> "none",
            messages |-> <<>>, tokens |-> <<>>, assistant_text |-> NoLocals,
            final_history |-> <<>>, events |-> <<>>]

\* chat_service.py:220-225
ValidateChat(t) ==
    /\ pc[t] = "stream_region_aware_assistant"
    /\ IF IsBlank(args[t].session_id)
       THEN /\ pc' = [pc EXCEPT ![t] = "idle"]
            /\ args' = [args EXCEPT ![t] = Idle(args[t].made)]
            /\ result' = [result EXCEPT ![t] = ChatServiceError("session_id is required.")]
            /\ UNCHANGED locals
       ELSE IF Strip(args[t].message) = <<>>
       THEN /\ pc' = [pc EXCEPT ![t] = "idle"]
            /\ args' = [args EXCEPT ![t] = Idle(args[t].made)]
            /\ result' = [result EXCEPT ![t] = ChatServiceError("message is required.")]
            /\ UNCHANGED locals
       ELSE /\ pc' = [pc EXCEPT ![t] = "set_context"]
            /\ locals' = [locals EXCEPT !.frames[t].context =
                              RegionContext(args[t].context.country,
                                            args[t].context.city,
                                            args[t].context.skill)]
            /\ UNCHANGED <<args, result>>

\* chat_service.py:226-227 and 42-44: set_context under the lock, then the
\* call of append_turn for the user's turn
SetContext(t) ==
    /\ pc[t] = "set_context"
    /\ LockOpenTo(t)
    /\ locals' = [locals EXCEPT !._memory._contexts =
                      DictSet(@, args[t].session_id, locals.frames[t].context)]
    /\ args' = [args EXCEPT ![t] =
                   AppendTurnCall(args[t].session_id, "user", Strip(args[t].message),
                                  Caller("history", args[t]))]
    /\ pc' = [pc EXCEPT ![t] = "append_turn"]
    /\ UNCHANGED result

\* chat_service.py:228, history = _memory.history(session_id)
ReadHistory(t) ==
    /\ pc[t] = "history"
    /\ LockOpenTo(t)
    /\ locals' = [locals EXCEPT !.frames[t].history =
                      HistoryOf(locals._memory, args[t].session_id)]
    /\ pc' = [pc EXCEPT ![t] = "yield_start"]
    /\ UNCHANGED <<args, result>>

\* chat_service.py:230-236
YieldStart(t) ==
    /\ pc[t] = "yield_start"
    /\ LET use_openai == _has_real_openai_key(locals.settings.openai_api_key)
       IN  locals' = [locals EXCEPT
               !.frames[t].mode = IF use_openai THEN "openai_streaming" ELSE "rule_based",
               !.frames[t].events = Append(@, "start"),
               !.frames[t].messages =
                   IF use_openai
                   THEN <<[role |-> "system", content |-> locals.frames[t].context]>>
                        \o _history_to_messages(locals.frames[t].history, 12)
                   ELSE <<>>]
    /\ pc' = [pc EXCEPT ![t] = "respond"]
    /\ UNCHANGED <<args, result>>

\* the call of append_turn for the assistant's turn, chat_service.py:249
AppendAssistant(t, assistant_text) ==
    /\ args' = [args EXCEPT ![t] =
                   AppendTurnCall(args[t].session_id, "assistant", assistant_text,
                                  Caller("final_history", args[t]))]
    /\ pc' = [pc EXCEPT ![t] = "append_turn"]

\* chat_service.py:245-249
RuleBased(t) ==
    /\ pc[t] = "respond"
    /\ locals.frames[t].mode = "rule_based"
    /\ LET structured == _rule_based_structured_explanation(
                             args[t].message, locals.frames[t].context,
                             locals.frames[t].history)
       IN  /\ locals' = [locals EXCEPT !.frames[t].assistant_text = JsonText(structured)]
           /\ AppendAssistant(t, JsonText(structured))
    /\ UNCHANGED result

\* chat_service.py:238-240, one token of the stream and the yield of its chunk
StreamChunk(t, token) ==
    /\ pc[t] = "respond"
    /\ locals.frames[t].mode = "openai_streaming"
    /\ locals' = [locals EXCEPT !.frames[t].tokens = Append(@, token),
                                !.frames[t].events = Append(@, "chunk")]
    /\ UNCHANGED <<pc, args, result>>

\* chat_service.py:238 and 249, the stream ends
StreamEnds(t) ==
    /\ pc[t] = "respond"
    /\ locals.frames[t].mode = "openai_streaming"
    /\ LET assistant_text == PlainText(locals.frames[t].tokens)
       IN  /\ locals' = [locals EXCEPT !.frames[t].assistant_text = assistant_text]
           /\ AppendAssistant(t, assistant_text)
    /\ UNCHANGED result

\* chat_service.py:241-244 and 249, the stream raises
StreamFails(t) ==
    /\ pc[t] = "respond"
    /\ locals.frames[t].mode = "openai_streaming"
    /\ LET structured == _rule_based_structured_explanation(
                             args[t].message, locals.frames[t].context,
                             locals.frames[t].history)
       IN  /\ locals' = [locals EXCEPT !.frames[t].mode = "rule_based",
                                       !.frames[t].assistant_text = JsonText(structured)]
           /\ AppendAssistant(t, JsonText(structured))
    /\ UNCHANGED result

\* chat_service.py:250, final_history = [asdict(turn) for turn in _memory.history(...)]
ReadFinalHistory(t) ==
    /\ pc[t] = "final_history"
    /\ LockOpenTo(t)
    /\ locals' = [locals EXCEPT !.frames[t].final_history =
                      HistoryOf(locals._memory, args[t].session_id)]
    /\ pc' = [pc EXCEPT ![t] = "yield_final"]
    /\ UNCHANGED <<args, result>>

\* chat_service.py:251-262
YieldFinal(t) ==
    /\ pc[t] = "yield_final"
    /\ result' = [result EXCEPT ![t] =
           Return([mode |-> locals.frames[t].mode,
                   session_id |-> args[t].session_id,
                   context |-> locals.frames[t].context,
                   structured_explanation |->
                       _parse_or_wrap_structured_response(locals.frames[t].assistant_text),
                   conversation_history |-> locals.frames[t].final_history])]
    /\ locals' = [locals EXCEPT !.frames[t].events = Append(@, "final")]
    /\ pc' = [pc EXCEPT ![t] = "idle"]
    /\ args' = [args EXCEPT ![t] = Idle(args[t].made)]

-----------------------------------------------------------------------------
(* The calls of stream_region_aware_assistant the model runs               *)

\* the calls each thread makes, and the tokens of the longest stream
MaxRequests == 1
MaxChunks == 1

ChatSessionIds == {"s1", " "}
Messages == {<<"salary">>, <<" ", "risk", " ">>, <<" ">>}
Contexts == {RegionContext("India", "Pune", "Python")}
Tokens == {"Demand"}
ApiKeys == {<<"sk-", "replace-with-valid-openai-key">>, <<"sk-", "live">>}

\* the session after so many requests were served one after the other
EarlierTurn(i) ==
    IF i % 2 = 1
    THEN ConversationTurn("user", <<"pivot">>, i)
    ELSE ConversationTurn("assistant",
             JsonText(_rule_based_structured_explanation(
                          <<"pivot">>, RegionContext("India", "Pune", "Python"),
                          <<"pivot">>)), i)

EarlierTurns(requests) == [i \in 1 .. 2 * requests |-> EarlierTurn(i)]

EarlierRequests == {0, 15}

InitChat ==
    /\ pc = [t \in Threads |-> "idle"]
    /\ args = [t \in Threads |-> Idle(0)]
    /\ \E requests \in EarlierRequests, openai_api_key \in ApiKeys :
          locals =
              [_memory |->
                   IF requests = 0
                   THEN ConversationMemoryStore(DefaultMaxTurns)
                   ELSE [ConversationMemoryStore(DefaultMaxTurns) EXCEPT
                            !._history = DictSet(@, "s1", EarlierTurns(requests)),
                            !._contexts = DictSet(@, "s1",
                                              RegionContext("India", "Pune", "Python"))],
               settings |-> [openai_api_key |-> openai_api_key],
               frames |-> [t \in Threads |-> NoFrame],
               clock |-> 2 * requests,
               appended |-> IF requests = 0 THEN EmptyDict
                            ELSE DictSet(EmptyDict, "s1", EarlierTurns(requests))]
    /\ result = [t \in Threads |-> NoResult]

\* a thread starts to consume stream_region_aware_assistant(session_id, message, ...)
CallStream(t) ==
    /\ pc[t] = "idle"
    /\ args[t].made < MaxRequests
    /\ \E session_id \in ChatSessionIds, message \in Messages, context \in Contexts :
          /\ args' = [args EXCEPT ![t] =
                         StreamCall(session_id, message, context, args[t].made + 1)]
          /\ locals' = [locals EXCEPT !.frames[t] =
                           [NoFrame EXCEPT !.session_id = session_id,
                                           !.message = message]]
    /\ pc' = [pc EXCEPT ![t] = "stream_region_aware_assistant"]
    /\ result' = [result EXCEPT ![t] = NoResult]

NextChat ==
    \E t \in Threads :
        \/ CallStream(t)
        \/ ValidateChat(t)
        \/ SetContext(t)
        \/ AcquireLock(t)
        \/ SetDefaultTurns(t)
        \/ AppendTurn(t)
        \/ TrimTurns(t)
        \/ ReleaseLock(t)
        \/ ReadHistory(t)
        \/ YieldStart(t)
        \/ RuleBased(t)
        \/ \E token \in Tokens :
               /\ Len(locals.frames[t].tokens) < MaxChunks
               /\ StreamChunk(t, token)
        \/ StreamEnds(t)
        \/ StreamFails(t)
        \/ ReadFinalHistory(t)
        \/ YieldFinal(t)

SpecChat == InitChat /\ [][NextChat]_vars

(* Claims on stream_region_aware_assistant                                 *)

\* every call of the model has been consumed to its end
AllCallsFinished ==
    /\ \A t \in Threads : pc[t] = "idle" /\ result[t] # NoResult
    /\ NoAppendUnderWay

\* the threads whose call returned its final event for the session
Served(session_id) ==
    {t \in Threads : /\ result[t].status = "ok"
                     /\ result[t].value.session_id = session_id}

RolesAlternate(turns) ==
    \A i \in 1 .. Len(turns) :
        turns[i].role = IF i % 2 = 1 THEN "user" ELSE "assistant"

\* the turn of the call's message is in the list, right before the turn of
\* the text the call produced
AnsweredInPlace(turns, t) ==
    \E i \in 1 .. Len(turns) - 1 :
        /\ turns[i].role = "user"
        /\ turns[i].content = Strip(locals.frames[t].message)
        /\ turns[i + 1].role = "assistant"
        /\ turns[i + 1].content = locals.frames[t].assistant_text

EndsWithOwnTurn(t) ==
    LET turns == result[t].value.conversation_history
    IN  /\ turns # <<>>
        /\ turns[Len(turns)].role = "assistant"
        /\ turns[Len(turns)].content = locals.frames[t].assistant_text

\* C30: once all the calls on a session have finished, whatever their
\* interleaving, the roles in the session's history alternate user,
\* assistant, the turn of each call's message is followed at once by the
\* turn of the text produced for it, and the conversation_history each
\* call returned ends with the call's own assistant turn
C30_TurnsPairedPerCall ==
    AllCallsFinished =>
        \A session_id \in ChatSessionIds :
            /\ RolesAlternate(HistoryNow(session_id))
            /\ \A t \in Served(session_id) :
                  /\ AnsweredInPlace(HistoryNow(session_id), t)
                  /\ EndsWithOwnTurn(t)

=============================================================================
